---- MODULE Spec2Model ----
(***************************************************************************)
(* Model of the universal create / read / update / delete handlers of the  *)
(* deployment-step resources (resource_deployment_step.go).                *)
(*                                                                         *)
(* Every handler is a read-modify-write of the whole step list of one      *)
(* deployment process.  A handler is cut at its remote calls: the part up  *)
(* to and including DeploymentProcess.Get together with the in-memory      *)
(* splice is one action, the DeploymentProcess.Update call with the code   *)
(* that follows it is another.  Terraform applies resources in parallel,   *)
(* so the handlers of two resources may interleave at those cuts.          *)
(***************************************************************************)
EXTENDS Integers, Sequences, FiniteSets, TLC

(***************************************************************************)
(* Bounds of the model.                                                    *)
(***************************************************************************)
MaxInitSteps == 3
MaxOps == 3

(***************************************************************************)
(* Values.                                                                 *)
(***************************************************************************)
\* the resources Terraform manages: one in a run that applies its changes one
\* after the other, two in a run that applies them in parallel
Resources == {"r1", "r2"}

\* the zero value of a Go string: an unset optional attribute, a cleared ID
NoId == ""

\* the ID the server gave the n-th step it has ever stored
StepId(n) == "Steps-" \o ToString(n)

\* IDs of the steps the deployment process may hold initially
InitIds == {StepId(n) : n \in 1..MaxInitSteps}

\* values of before_step_id / after_step_id: unset, or any initial step ID
\* (an ID that is not in the fetched list is a reference to a missing step)
RefIds == {NoId} \cup InitIds

ProcessId == "deploymentprocess-1"

\* a step as the handlers see it: its server-assigned ID and its content
Step(id, name) == [ID |-> id, Name |-> name]

OrigName == "orig"
StepNames == {"built"}

ErrItemNotFound == "ErrItemNotFound"
OtherError == "error"

VARIABLES
  serverSteps,        \* the step list of the deployment process on the server
  nextId,             \* number of the next ID the server hands out
  opsLeft,            \* per resource: handlers Terraform may still call
  writes,             \* number of successful DeploymentProcess.Update calls
  lastWriter,         \* the resource whose handler wrote last
  pc,                 \* per resource: position of its running handler
  kind,               \* per resource: which handler is running
  d,                  \* per resource: the schema.ResourceData
  stepId,             \* per handler: d.Id() read at its start
  beforeStepId,       \* per handler: d.Get("before_step_id")
  afterStepId,        \* per handler: d.Get("after_step_id")
  stepName,           \* per handler: d.Get("step_name")
  orgDeploymentSteps, \* per handler: the fetched list
  deploymentProcess,  \* per handler: deploymentProcess.Steps after the splice
  newStepAddedIndex,  \* per handler: the computed index (Go, 0-based)
  ret,                \* per handler: the returned error
  gets,               \* per handler: DeploymentProcess.Get calls issued
  updates,            \* per handler: DeploymentProcess.Update calls issued
  fetchedAt,          \* per handler: value of writes when it fetched
  projectErr,         \* per handler: what client.Project.Get returned
  getErr,             \* per handler: what client.DeploymentProcess.Get returned
  updateErr,          \* per handler: what client.DeploymentProcess.Update returned
  setSchemaCalls,     \* per handler: the steps setSchemaFunc was called with
  firstStep,          \* per handler: d.Get("first_step") (first_step revision)
  lastWrite,          \* per resource: its last returned handler that wrote
  rtStage,            \* builder/setter round trip: how far it has got
  rtConfig,           \* round trip: the schema.ResourceData given to the builder
  rtStep,             \* round trip: the DeploymentStep the builder returned
  rtState             \* round trip: the fields the setter has set

locals == <<stepId, beforeStepId, afterStepId, stepName, orgDeploymentSteps,
            deploymentProcess, newStepAddedIndex, fetchedAt, setSchemaCalls,
            firstStep>>
server == <<serverSteps, nextId, writes, lastWriter>>
calls == <<gets, updates, projectErr, getErr, updateErr>>

roundTrip == <<rtStage, rtConfig, rtStep, rtState>>

vars == <<server, opsLeft, pc, kind, d, locals, ret, calls, lastWrite,
          roundTrip>>

(***************************************************************************)
(* Helpers on step lists.                                                  *)
(***************************************************************************)
Ids(steps) == {steps[i].ID : i \in 1..Len(steps)}

DistinctIds(steps) ==
  \A i, j \in 1..Len(steps) : steps[i].ID = steps[j].ID => i = j

\* insert x so that it ends up at (1-based) position k
InsertAt(steps, k, x) ==
  SubSeq(steps, 1, k - 1) \o <<x>> \o SubSeq(steps, k, Len(steps))

\* the list without the steps that carry the ID, the others in their order
WithoutId(steps, id) ==
  LET Keep(st) == st.ID # id IN SelectSeq(steps, Keep)

\* position of the first step that carries the ID, 0 when there is none
IndexOf(steps, id) ==
  IF \E i \in 1..Len(steps) : steps[i].ID = id
  THEN CHOOSE i \in 1..Len(steps) :
         /\ steps[i].ID = id
         /\ \A j \in 1..(i - 1) : steps[j].ID # id
  ELSE 0

(***************************************************************************)
(* The step builder, as far as the handlers depend on it: a step without   *)
(* an ID whose name is the configured step_name.                           *)
(***************************************************************************)
buildDeploymentProcessStepFunc(step_name) == Step(NoId, step_name)

(***************************************************************************)
(* resourceDeploymentStepCreate: the splice.                               *)
(* A splice state is the pair of newStepAddedIndex and the list built so   *)
(* far; stepIndex is the Go (0-based) index of orgDeploymentStep.          *)
(***************************************************************************)
\* variant: the after-test lacks the "not added yet" guard
CreateLoopBody_NoAddedGuard(s, stepIndex, orgDeploymentStep, newDeploymentStep, before, after) ==
  LET s1 == IF s.newStepAddedIndex = -1 /\ orgDeploymentStep.ID = before
            THEN [newStepAddedIndex |-> stepIndex,
                  Steps |-> Append(s.Steps, newDeploymentStep)]
            ELSE s
      s2 == [s1 EXCEPT !.Steps = Append(@, orgDeploymentStep)]
  IN  IF orgDeploymentStep.ID = after
      THEN [newStepAddedIndex |-> stepIndex + 1,
            Steps |-> Append(s2.Steps, newDeploymentStep)]
      ELSE s2

\* variant: the two references are tested the other way round
CreateLoopBody_SwappedReferences(s, stepIndex, orgDeploymentStep, newDeploymentStep, before, after) ==
  LET s1 == IF s.newStepAddedIndex = -1 /\ orgDeploymentStep.ID = after
            THEN [newStepAddedIndex |-> stepIndex,
                  Steps |-> Append(s.Steps, newDeploymentStep)]
            ELSE s
      s2 == [s1 EXCEPT !.Steps = Append(@, orgDeploymentStep)]
  IN  IF s2.newStepAddedIndex = -1 /\ orgDeploymentStep.ID = before
      THEN [newStepAddedIndex |-> stepIndex + 1,
            Steps |-> Append(s2.Steps, newDeploymentStep)]
      ELSE s2

\* variant: the original step is copied before the before-test
CreateLoopBody_CopiesFirst(s, stepIndex, orgDeploymentStep, newDeploymentStep, before, after) ==
  LET s1 == [s EXCEPT !.Steps = Append(@, orgDeploymentStep)]
      s2 == IF s1.newStepAddedIndex = -1 /\ orgDeploymentStep.ID = before
            THEN [newStepAddedIndex |-> stepIndex,
                  Steps |-> Append(s1.Steps, newDeploymentStep)]
            ELSE s1
  IN  IF s2.newStepAddedIndex = -1 /\ orgDeploymentStep.ID = after
      THEN [newStepAddedIndex |-> stepIndex + 1,
            Steps |-> Append(s2.Steps, newDeploymentStep)]
      ELSE s2

\* variant: the after-branch records the index of the referenced step
CreateLoopBody_IndexOfNeighbour(s, stepIndex, orgDeploymentStep, newDeploymentStep, before, after) ==
  LET s1 == IF s.newStepAddedIndex = -1 /\ orgDeploymentStep.ID = before
            THEN [newStepAddedIndex |-> stepIndex,
                  Steps |-> Append(s.Steps, newDeploymentStep)]
            ELSE s
      s2 == [s1 EXCEPT !.Steps = Append(@, orgDeploymentStep)]
  IN  IF s2.newStepAddedIndex = -1 /\ orgDeploymentStep.ID = after
      THEN [newStepAddedIndex |-> stepIndex,
            Steps |-> Append(s2.Steps, newDeploymentStep)]
      ELSE s2

CreateLoopBody(s, stepIndex, orgDeploymentStep, newDeploymentStep, before, after) ==
  LET s1 == IF s.newStepAddedIndex = -1 /\ orgDeploymentStep.ID = before
            THEN [newStepAddedIndex |-> stepIndex,
                  Steps |-> Append(s.Steps, newDeploymentStep)]
            ELSE s
      s2 == [s1 EXCEPT !.Steps = Append(@, orgDeploymentStep)]
  IN  IF s2.newStepAddedIndex = -1 /\ orgDeploymentStep.ID = after
      THEN [newStepAddedIndex |-> stepIndex + 1,
            Steps |-> Append(s2.Steps, newDeploymentStep)]
      ELSE s2

RECURSIVE CreateLoop(_, _, _, _, _, _)
CreateLoop(s, i, steps, newDeploymentStep, before, after) ==
  IF i > Len(steps) THEN s
  ELSE CreateLoop(CreateLoopBody(s, i - 1, steps[i], newDeploymentStep,
                                 before, after),
                  i + 1, steps, newDeploymentStep, before, after)

\* variant: the fallback puts the step in front
AppendIfNotAdded_Prepends(s, newDeploymentStep) ==
  IF s.newStepAddedIndex = -1
  THEN [newStepAddedIndex |-> 0,
        Steps |-> <<newDeploymentStep>> \o s.Steps]
  ELSE s

\* the fallback after the loop: nothing matched, append
AppendIfNotAdded(s, newDeploymentStep) ==
  IF s.newStepAddedIndex = -1
  THEN [newStepAddedIndex |-> Len(s.Steps),
        Steps |-> Append(s.Steps, newDeploymentStep)]
  ELSE s

\* variant: the new step is appended once more after the fallback
CreateSplice_AppendsTwice(steps, newDeploymentStep, before, after) ==
  LET s == AppendIfNotAdded(
             CreateLoop([newStepAddedIndex |-> -1, Steps |-> <<>>], 1, steps,
                        newDeploymentStep, before, after),
             newDeploymentStep)
  IN  [s EXCEPT !.Steps = Append(@, newDeploymentStep)]

CreateSplice(steps, newDeploymentStep, before, after) ==
  AppendIfNotAdded(
    CreateLoop([newStepAddedIndex |-> -1, Steps |-> <<>>], 1, steps,
               newDeploymentStep, before, after),
    newDeploymentStep)

(***************************************************************************)
(* resourceDeploymentStepUpdate: the splice.  The references are tested    *)
(* against every fetched step, the edited one included; the edited step    *)
(* itself is not copied.                                                   *)
(***************************************************************************)
\* variant: the edited step is skipped before the references are tested
UpdateLoopBody_RemovesFirst(s, stepIndex, orgDeploymentStep, newDeploymentStep, before, after, id) ==
  IF orgDeploymentStep.ID = id THEN s
  ELSE LET s1 == IF s.newStepAddedIndex = -1 /\ orgDeploymentStep.ID = before
                 THEN [newStepAddedIndex |-> stepIndex,
                       Steps |-> Append(s.Steps, newDeploymentStep)]
                 ELSE s
           s2 == [s1 EXCEPT !.Steps = Append(@, orgDeploymentStep)]
       IN  IF s2.newStepAddedIndex = -1 /\ orgDeploymentStep.ID = after
           THEN [newStepAddedIndex |-> stepIndex + 1,
                 Steps |-> Append(s2.Steps, newDeploymentStep)]
           ELSE s2

\* variant: the edited step is copied like every other step
UpdateLoopBody_KeepsOld(s, stepIndex, orgDeploymentStep, newDeploymentStep, before, after, id) ==
  LET s1 == IF s.newStepAddedIndex = -1 /\ orgDeploymentStep.ID = before
            THEN [newStepAddedIndex |-> stepIndex,
                  Steps |-> Append(s.Steps, newDeploymentStep)]
            ELSE s
      s2 == [s1 EXCEPT !.Steps = Append(@, orgDeploymentStep)]
  IN  IF s2.newStepAddedIndex = -1 /\ orgDeploymentStep.ID = after
      THEN [newStepAddedIndex |-> stepIndex + 1,
            Steps |-> Append(s2.Steps, newDeploymentStep)]
      ELSE s2

\* variant: the edited step is told from the others by its name, not its ID
UpdateLoopBody_SkipsByName(s, stepIndex, orgDeploymentStep, newDeploymentStep, before, after, id) ==
  LET s1 == IF s.newStepAddedIndex = -1 /\ orgDeploymentStep.ID = before
            THEN [newStepAddedIndex |-> stepIndex,
                  Steps |-> Append(s.Steps, newDeploymentStep)]
            ELSE s
      s2 == IF orgDeploymentStep.Name # newDeploymentStep.Name
            THEN [s1 EXCEPT !.Steps = Append(@, orgDeploymentStep)]
            ELSE s1
  IN  IF s2.newStepAddedIndex = -1 /\ orgDeploymentStep.ID = after
      THEN [newStepAddedIndex |-> stepIndex + 1,
            Steps |-> Append(s2.Steps, newDeploymentStep)]
      ELSE s2

\* variant: the after-test lacks the "not added yet" guard
UpdateLoopBody_NoAddedGuard(s, stepIndex, orgDeploymentStep, newDeploymentStep, before, after, id) ==
  LET s1 == IF s.newStepAddedIndex = -1 /\ orgDeploymentStep.ID = before
            THEN [newStepAddedIndex |-> stepIndex,
                  Steps |-> Append(s.Steps, newDeploymentStep)]
            ELSE s
      s2 == IF orgDeploymentStep.ID # id
            THEN [s1 EXCEPT !.Steps = Append(@, orgDeploymentStep)]
            ELSE s1
  IN  IF orgDeploymentStep.ID = after
      THEN [newStepAddedIndex |-> stepIndex + 1,
            Steps |-> Append(s2.Steps, newDeploymentStep)]
      ELSE s2

UpdateLoopBody(s, stepIndex, orgDeploymentStep, newDeploymentStep, before, after, id) ==
  LET s1 == IF s.newStepAddedIndex = -1 /\ orgDeploymentStep.ID = before
            THEN [newStepAddedIndex |-> stepIndex,
                  Steps |-> Append(s.Steps, newDeploymentStep)]
            ELSE s
      s2 == IF orgDeploymentStep.ID # id
            THEN [s1 EXCEPT !.Steps = Append(@, orgDeploymentStep)]
            ELSE s1
  IN  IF s2.newStepAddedIndex = -1 /\ orgDeploymentStep.ID = after
      THEN [newStepAddedIndex |-> stepIndex + 1,
            Steps |-> Append(s2.Steps, newDeploymentStep)]
      ELSE s2

RECURSIVE UpdateLoop(_, _, _, _, _, _, _)
UpdateLoop(s, i, steps, newDeploymentStep, before, after, id) ==
  IF i > Len(steps) THEN s
  ELSE UpdateLoop(UpdateLoopBody(s, i - 1, steps[i], newDeploymentStep,
                                 before, after, id),
                  i + 1, steps, newDeploymentStep, before, after,
                  id)

\* variant: the step list is not emptied before the loop refills it
UpdateSplice_NotEmptied(steps, builtStep, before, after, id) ==
  LET newDeploymentStep == [builtStep EXCEPT !.ID = id]
  IN  AppendIfNotAdded(
        UpdateLoop([newStepAddedIndex |-> -1, Steps |-> steps], 1, steps,
                   newDeploymentStep, before, after, id),
        newDeploymentStep)

\* variant: a step that is not in the fetched list is not written back
UpdateSplice_OnlyIfPresent(steps, builtStep, before, after, id) ==
  LET newDeploymentStep == [builtStep EXCEPT !.ID = id]
      s == UpdateLoop([newStepAddedIndex |-> -1, Steps |-> <<>>], 1, steps,
                      newDeploymentStep, before, after, id)
  IN  IF IndexOf(steps, id) = 0
      THEN [newStepAddedIndex |-> -1, Steps |-> steps]
      ELSE AppendIfNotAdded(s, newDeploymentStep)

\* variant: the rebuilt step is not given the resource's ID
UpdateSplice_KeepsBuiltId(steps, builtStep, before, after, id) ==
  AppendIfNotAdded(
    UpdateLoop([newStepAddedIndex |-> -1, Steps |-> <<>>], 1, steps,
               builtStep, before, after, id),
    builtStep)

UpdateSplice(steps, builtStep, before, after, id) ==
  LET newDeploymentStep == [builtStep EXCEPT !.ID = id]
  IN  AppendIfNotAdded(
        UpdateLoop([newStepAddedIndex |-> -1, Steps |-> <<>>], 1, steps,
                   newDeploymentStep, before, after, id),
        newDeploymentStep)

(***************************************************************************)
(* resourceDeploymentStepDelete: the filter.                               *)
(***************************************************************************)
RECURSIVE DeleteLoop(_, _, _, _)
DeleteLoop(acc, i, steps, id) ==
  IF i > Len(steps) THEN acc
  ELSE DeleteLoop(IF steps[i].ID # id THEN Append(acc, steps[i]) ELSE acc,
                  i + 1, steps, id)

\* variant: the loop stops at the resource's step, the steps after it are lost
DeleteSplice_StopsAtMatch(steps, id) ==
  IF IndexOf(steps, id) = 0 THEN steps
  ELSE SubSeq(steps, 1, IndexOf(steps, id) - 1)

\* variant: the test is inverted, only the resource's step is kept
DeleteSplice_Inverted(steps, id) ==
  LET Match(st) == st.ID = id IN SelectSeq(steps, Match)

DeleteSplice(steps, id) == DeleteLoop(<<>>, 1, steps, id)

(***************************************************************************)
(* resourceDeploymentStepRead: the search.  0 when no step has the ID,     *)
(* else the (1-based) position of the first step that has it.              *)
(***************************************************************************)
RECURSIVE FindStep(_, _, _)
FindStep(i, steps, id) ==
  IF i > Len(steps) THEN 0
  ELSE IF steps[i].ID = id THEN i
       ELSE FindStep(i + 1, steps, id)

(***************************************************************************)
(* The server behind client.DeploymentProcess.Update: it stores the list   *)
(* it is sent, in the order sent, and gives every step that comes without  *)
(* an ID the next fresh one.                                               *)
(***************************************************************************)
RECURSIVE AssignIds(_, _)
AssignIds(steps, n) ==
  IF steps = <<>> THEN <<>>
  ELSE IF Head(steps).ID = NoId
       THEN <<[Head(steps) EXCEPT !.ID = StepId(n)]>>
              \o AssignIds(Tail(steps), n + 1)
       ELSE <<Head(steps)>> \o AssignIds(Tail(steps), n)

NumNew(steps) == Cardinality({i \in 1..Len(steps) : steps[i].ID = NoId})

(***************************************************************************)
(* The first_step revision of the handlers (src/unnamed/part_000): the     *)
(* configuration has a boolean first_step in place of before_step_id.      *)
(* The splice state is as above; first is d.Get("first_step").             *)
(***************************************************************************)
\* variant: first_step is not looked at
FirstStepCreateLoopBody_IgnoresFirst(s, stepIndex, orgDeploymentStep, newDeploymentStep, first, after) ==
  LET s2 == [s EXCEPT !.Steps = Append(@, orgDeploymentStep)]
  IN  IF s2.newStepAddedIndex = -1 /\ orgDeploymentStep.ID = after
      THEN [newStepAddedIndex |-> stepIndex + 1,
            Steps |-> Append(s2.Steps, newDeploymentStep)]
      ELSE s2

\* part_000 lines 321-333: one turn of the loop of create
FirstStepCreateLoopBody(s, stepIndex, orgDeploymentStep, newDeploymentStep, first, after) ==
  LET s1 == IF first /\ stepIndex = 0
            THEN [newStepAddedIndex |-> stepIndex,
                  Steps |-> Append(s.Steps, newDeploymentStep)]
            ELSE s
      s2 == [s1 EXCEPT !.Steps = Append(@, orgDeploymentStep)]
  IN  IF s2.newStepAddedIndex = -1 /\ orgDeploymentStep.ID = after
      THEN [newStepAddedIndex |-> stepIndex + 1,
            Steps |-> Append(s2.Steps, newDeploymentStep)]
      ELSE s2

RECURSIVE FirstStepCreateLoop(_, _, _, _, _, _)
FirstStepCreateLoop(s, i, steps, newDeploymentStep, first, after) ==
  IF i > Len(steps) THEN s
  ELSE FirstStepCreateLoop(
         FirstStepCreateLoopBody(s, i - 1, steps[i], newDeploymentStep,
                                 first, after),
         i + 1, steps, newDeploymentStep, first, after)

\* part_000 lines 317-338
FirstStepCreateSplice(steps, newDeploymentStep, first, after) ==
  AppendIfNotAdded(
    FirstStepCreateLoop([newStepAddedIndex |-> -1, Steps |-> <<>>], 1, steps,
                        newDeploymentStep, first, after),
    newDeploymentStep)

\* part_000 lines 444-458: one turn of the loop of update
FirstStepUpdateLoopBody(s, stepIndex, orgDeploymentStep, newDeploymentStep, first, after, id) ==
  LET s1 == IF first /\ stepIndex = 0
            THEN [newStepAddedIndex |-> stepIndex,
                  Steps |-> Append(s.Steps, newDeploymentStep)]
            ELSE s
      s2 == IF orgDeploymentStep.ID # id
            THEN [s1 EXCEPT !.Steps = Append(@, orgDeploymentStep)]
            ELSE s1
  IN  IF s2.newStepAddedIndex = -1 /\ orgDeploymentStep.ID = after
      THEN [newStepAddedIndex |-> stepIndex + 1,
            Steps |-> Append(s2.Steps, newDeploymentStep)]
      ELSE s2

RECURSIVE FirstStepUpdateLoop(_, _, _, _, _, _, _)
FirstStepUpdateLoop(s, i, steps, newDeploymentStep, first, after, id) ==
  IF i > Len(steps) THEN s
  ELSE FirstStepUpdateLoop(
         FirstStepUpdateLoopBody(s, i - 1, steps[i], newDeploymentStep,
                                 first, after, id),
         i + 1, steps, newDeploymentStep, first, after, id)

\* part_000 lines 436-463: the built step gets the resource's ID, then the
\* loop and the fallback
FirstStepUpdateSplice(steps, builtStep, first, after, id) ==
  LET newDeploymentStep == [builtStep EXCEPT !.ID = id]
  IN  AppendIfNotAdded(
        FirstStepUpdateLoop([newStepAddedIndex |-> -1, Steps |-> <<>>], 1,
                            steps, newDeploymentStep, first, after, id),
        newDeploymentStep)

(***************************************************************************)
(* resourceDeploymentStepRead of the first_step revision: the search.      *)
(* deploymentStep and prevDeploymentStep are pointers: 0 is nil, else the  *)
(* (1-based) position of the step pointed to.                              *)
(***************************************************************************)
\* variant: the index is taken as one-based
FirstStepFindMatch_OneBased(s, stepIndex) ==
  [s EXCEPT !.deploymentStep = stepIndex + 1,
            !.firstStep = IF stepIndex = 1 THEN TRUE ELSE @]

\* part_000 lines 385-389: the step has the ID (the loop then breaks)
FirstStepFindMatch(s, stepIndex) ==
  [s EXCEPT !.deploymentStep = stepIndex + 1,
            !.firstStep = IF stepIndex = 0 THEN TRUE ELSE @]

\* part_000 lines 383-393
RECURSIVE FirstStepFindLoop(_, _, _, _)
FirstStepFindLoop(s, i, steps, id) ==
  IF i > Len(steps) THEN s
  ELSE IF steps[i].ID = id THEN FirstStepFindMatch(s, i - 1)
       ELSE FirstStepFindLoop(
              [s EXCEPT !.prevDeploymentStep = s.deploymentStep],
              i + 1, steps, id)

\* part_000 lines 380-393
FirstStepFind(steps, id) ==
  FirstStepFindLoop(
    [deploymentStep |-> 0, prevDeploymentStep |-> 0, firstStep |-> FALSE],
    1, steps, id)

(***************************************************************************)
(* Initial state: a deployment process with 0..MaxInitSteps steps whose    *)
(* IDs are pairwise distinct, and resources that are each either not created *)
(* yet (no ID) or created earlier (the ID of a step; the step may have     *)
(* been removed from the process since).  No handler is running.           *)
(* P is the set of resources, budget the number of handler calls each of   *)
(* them may get.                                                           *)
(***************************************************************************)
NoLocals(p) ==
  /\ stepId' = [stepId EXCEPT ![p] = NoId]
  /\ beforeStepId' = [beforeStepId EXCEPT ![p] = NoId]
  /\ afterStepId' = [afterStepId EXCEPT ![p] = NoId]
  /\ stepName' = [stepName EXCEPT ![p] = NoId]
  /\ orgDeploymentSteps' = [orgDeploymentSteps EXCEPT ![p] = <<>>]
  /\ deploymentProcess' = [deploymentProcess EXCEPT ![p] = <<>>]
  /\ newStepAddedIndex' = [newStepAddedIndex EXCEPT ![p] = -1]
  /\ fetchedAt' = [fetchedAt EXCEPT ![p] = 0]
  /\ setSchemaCalls' = [setSchemaCalls EXCEPT ![p] = <<>>]
  /\ firstStep' = [firstStep EXCEPT ![p] = FALSE]

\* no handler of the resource has written yet
NoWrite ==
  [kind |-> "none", beforeStepId |-> NoId, afterStepId |-> NoId,
   stepName |-> NoId, fetched |-> <<>>, stored |-> <<>>]

ResourceData(id) ==
  [Id |-> id,
   deployment_process_id |-> IF id = NoId THEN NoId ELSE ProcessId,
   step_name |-> IF id = NoId THEN NoId ELSE OrigName]

InitOn(P, budget) ==
  /\ \E n \in 0..MaxInitSteps :
       serverSteps = [i \in 1..n |-> Step(StepId(i), OrigName)]
  /\ nextId = MaxInitSteps + 1
  /\ opsLeft = [p \in P |-> budget]
  /\ writes = 0
  /\ lastWriter = NoId
  /\ pc = [p \in P |-> "idle"]
  /\ kind = [p \in P |-> "none"]
  /\ \E ids \in [P -> {NoId} \cup InitIds] :
       /\ \A p, q \in P : ids[p] = ids[q] /\ ids[p] # NoId => p = q
       /\ d = [p \in P |-> ResourceData(ids[p])]
  /\ stepId = [p \in P |-> NoId]
  /\ beforeStepId = [p \in P |-> NoId]
  /\ afterStepId = [p \in P |-> NoId]
  /\ stepName = [p \in P |-> NoId]
  /\ orgDeploymentSteps = [p \in P |-> <<>>]
  /\ deploymentProcess = [p \in P |-> <<>>]
  /\ newStepAddedIndex = [p \in P |-> -1]
  /\ ret = [p \in P |-> "none"]
  /\ gets = [p \in P |-> 0]
  /\ updates = [p \in P |-> 0]
  /\ fetchedAt = [p \in P |-> 0]
  /\ projectErr = [p \in P |-> "none"]
  /\ getErr = [p \in P |-> "none"]
  /\ updateErr = [p \in P |-> "none"]
  /\ setSchemaCalls = [p \in P |-> <<>>]
  /\ firstStep = [p \in P |-> FALSE]
  /\ lastWrite = [p \in P |-> NoWrite]

\* no builder/setter round trip is under way
NoRoundTrip ==
  /\ rtStage = "none"
  /\ rtConfig = <<>>
  /\ rtStep = <<>>
  /\ rtState = <<>>

\* successive applies of one resource: up to MaxOps handler calls
Init == InitOn({"r1"}, MaxOps) /\ NoRoundTrip

\* one apply of two resources: Terraform calls one handler per resource and
\* runs the two in parallel
InitPar == InitOn(Resources, 1) /\ NoRoundTrip

(***************************************************************************)
(* What a handler does when it returns: the returned error is recorded.    *)
(***************************************************************************)
Finish(p, err) ==
  /\ pc' = [pc EXCEPT ![p] = "done"]
  /\ ret' = [ret EXCEPT ![p] = err]

\* Terraform calls a handler of resource p: k is the handler
Begin(p, k) ==
  /\ p \in DOMAIN pc
  /\ pc[p] = "idle"
  /\ opsLeft[p] > 0
  /\ opsLeft' = [opsLeft EXCEPT ![p] = @ - 1]
  /\ kind' = [kind EXCEPT ![p] = k]

(***************************************************************************)
(* resourceDeploymentStepCreate                                            *)
(***************************************************************************)
\* lines 139-151: read the configuration, client.Project.Get
CreateProjectGet(p) ==
  /\ Begin(p, "create")
  /\ d[p].Id = NoId
  /\ \E b \in RefIds, a \in RefIds, n \in StepNames :
       /\ beforeStepId' = [beforeStepId EXCEPT ![p] = b]
       /\ afterStepId' = [afterStepId EXCEPT ![p] = a]
       /\ stepName' = [stepName EXCEPT ![p] = n]
  /\ \E err \in {"nil", OtherError} :
       /\ projectErr' = [projectErr EXCEPT ![p] = err]
       /\ IF err # "nil"
          THEN Finish(p, "error")
          ELSE /\ pc' = [pc EXCEPT ![p] = "create_get"]
               /\ UNCHANGED ret
  /\ UNCHANGED <<server, d, stepId, orgDeploymentSteps, deploymentProcess,
                 newStepAddedIndex, fetchedAt, setSchemaCalls, gets, updates,
                 getErr, updateErr,
                 firstStep, lastWrite, roundTrip>>

\* lines 153-185: client.DeploymentProcess.Get, build the step, splice it in
CreateGet(p) ==
  /\ p \in DOMAIN pc
  /\ pc[p] = "create_get"
  /\ gets' = [gets EXCEPT ![p] = @ + 1]
  /\ \E err \in {"nil", ErrItemNotFound, OtherError} :
       /\ getErr' = [getErr EXCEPT ![p] = err]
       /\ IF err # "nil"
          THEN /\ Finish(p, "error")
               /\ UNCHANGED <<orgDeploymentSteps, deploymentProcess,
                              newStepAddedIndex, fetchedAt>>
          ELSE LET s == CreateSplice(serverSteps,
                                     buildDeploymentProcessStepFunc(stepName[p]),
                                     beforeStepId[p], afterStepId[p])
               IN  /\ orgDeploymentSteps' =
                        [orgDeploymentSteps EXCEPT ![p] = serverSteps]
                   /\ deploymentProcess' =
                        [deploymentProcess EXCEPT ![p] = s.Steps]
                   /\ newStepAddedIndex' =
                        [newStepAddedIndex EXCEPT ![p] = s.newStepAddedIndex]
                   /\ fetchedAt' = [fetchedAt EXCEPT ![p] = writes]
                   /\ pc' = [pc EXCEPT ![p] = "create_update"]
                   /\ UNCHANGED ret
  /\ UNCHANGED <<server, opsLeft, kind, d, stepId, beforeStepId,
                 afterStepId, stepName, setSchemaCalls, updates,
                 projectErr, updateErr,
                 firstStep, lastWrite, roundTrip>>

\* the server stores the list sent by p and returns it with the IDs filled in
ServerStore(p, steps) ==
  /\ serverSteps' = AssignIds(steps, nextId)
  /\ nextId' = nextId + NumNew(steps)
  /\ writes' = writes + 1
  /\ lastWriter' = p

\* lines 187-200: client.DeploymentProcess.Update, set the IDs
CreateUpdate(p) ==
  /\ p \in DOMAIN pc
  /\ pc[p] = "create_update"
  /\ updates' = [updates EXCEPT ![p] = @ + 1]
  /\ \E err \in {"nil", OtherError} :
       /\ updateErr' = [updateErr EXCEPT ![p] = err]
       /\ IF err # "nil"
          THEN /\ Finish(p, "error")
               /\ UNCHANGED <<server, d>>
          ELSE /\ ServerStore(p, deploymentProcess[p])
               /\ d' = [d EXCEPT
                    ![p].deployment_process_id = ProcessId,
                    ![p].Id = AssignIds(deploymentProcess[p], nextId)
                                [newStepAddedIndex[p] + 1].ID]
               /\ Finish(p, "nil")
  /\ UNCHANGED <<opsLeft, kind, locals, gets,
                 projectErr, getErr,
                 lastWrite, roundTrip>>

(***************************************************************************)
(* resourceDeploymentStepRead (the whole handler: it makes one call)       *)
(***************************************************************************)
\* the schema setter, as far as the handlers depend on it
setSchemaFunc(rd, deploymentStep) ==
  [rd EXCEPT !.step_name = deploymentStep.Name]

\* variant: a deployment process that is gone is reported as an error, the
\* resource keeps its ID
Read_GoneIsError(p) ==
  /\ Begin(p, "read")
  /\ d[p].Id # NoId
  /\ stepId' = [stepId EXCEPT ![p] = d[p].Id]
  /\ gets' = [gets EXCEPT ![p] = @ + 1]
  /\ \E err \in {"nil", ErrItemNotFound, OtherError} :
       /\ getErr' = [getErr EXCEPT ![p] = err]
       /\ IF err # "nil"
          THEN /\ Finish(p, "error")
               /\ UNCHANGED <<d, orgDeploymentSteps, fetchedAt, setSchemaCalls>>
          ELSE LET i == FindStep(1, serverSteps, d[p].Id)
               IN  /\ orgDeploymentSteps' =
                        [orgDeploymentSteps EXCEPT ![p] = serverSteps]
                   /\ fetchedAt' = [fetchedAt EXCEPT ![p] = writes]
                   /\ Finish(p, "nil")
                   /\ IF i = 0
                      THEN /\ d' = [d EXCEPT ![p].Id = NoId]
                           /\ UNCHANGED setSchemaCalls
                      ELSE /\ d' = [d EXCEPT
                                      ![p] = setSchemaFunc(@, serverSteps[i])]
                           /\ setSchemaCalls' =
                                [setSchemaCalls EXCEPT
                                   ![p] = Append(@, serverSteps[i])]
  /\ UNCHANGED <<server, beforeStepId, afterStepId, stepName,
                 deploymentProcess, newStepAddedIndex, updates,
                 projectErr, updateErr,
                 firstStep, lastWrite, roundTrip>>

\* variant: a step that is gone from the list is not noticed, the resource
\* keeps its ID
Read_KeepsIdWhenMissing(p) ==
  /\ Begin(p, "read")
  /\ d[p].Id # NoId
  /\ stepId' = [stepId EXCEPT ![p] = d[p].Id]
  /\ gets' = [gets EXCEPT ![p] = @ + 1]
  /\ \E err \in {"nil", ErrItemNotFound, OtherError} :
       /\ getErr' = [getErr EXCEPT ![p] = err]
       /\ IF err = ErrItemNotFound
          THEN /\ d' = [d EXCEPT ![p].Id = NoId]
               /\ Finish(p, "nil")
               /\ UNCHANGED <<orgDeploymentSteps, fetchedAt, setSchemaCalls>>
          ELSE IF err # "nil"
          THEN /\ Finish(p, "error")
               /\ UNCHANGED <<d, orgDeploymentSteps, fetchedAt, setSchemaCalls>>
          ELSE LET i == FindStep(1, serverSteps, d[p].Id)
               IN  /\ orgDeploymentSteps' =
                        [orgDeploymentSteps EXCEPT ![p] = serverSteps]
                   /\ fetchedAt' = [fetchedAt EXCEPT ![p] = writes]
                   /\ Finish(p, "nil")
                   /\ IF i = 0
                      THEN UNCHANGED <<d, setSchemaCalls>>
                      ELSE /\ d' = [d EXCEPT
                                      ![p] = setSchemaFunc(@, serverSteps[i])]
                           /\ setSchemaCalls' =
                                [setSchemaCalls EXCEPT
                                   ![p] = Append(@, serverSteps[i])]
  /\ UNCHANGED <<server, beforeStepId, afterStepId, stepName,
                 deploymentProcess, newStepAddedIndex, updates,
                 projectErr, updateErr,
                 firstStep, lastWrite, roundTrip>>

Read(p) ==
  /\ Begin(p, "read")
  /\ d[p].Id # NoId
  /\ stepId' = [stepId EXCEPT ![p] = d[p].Id]
  /\ gets' = [gets EXCEPT ![p] = @ + 1]
  /\ \E err \in {"nil", ErrItemNotFound, OtherError} :
       /\ getErr' = [getErr EXCEPT ![p] = err]
       /\ IF err = ErrItemNotFound
          THEN /\ d' = [d EXCEPT ![p].Id = NoId]
               /\ Finish(p, "nil")
               /\ UNCHANGED <<orgDeploymentSteps, fetchedAt, setSchemaCalls>>
          ELSE IF err # "nil"
          THEN /\ Finish(p, "error")
               /\ UNCHANGED <<d, orgDeploymentSteps, fetchedAt, setSchemaCalls>>
          ELSE LET i == FindStep(1, serverSteps, d[p].Id)
               IN  /\ orgDeploymentSteps' =
                        [orgDeploymentSteps EXCEPT ![p] = serverSteps]
                   /\ fetchedAt' = [fetchedAt EXCEPT ![p] = writes]
                   /\ Finish(p, "nil")
                   /\ IF i = 0
                      THEN /\ d' = [d EXCEPT ![p].Id = NoId]
                           /\ UNCHANGED setSchemaCalls
                      ELSE /\ d' = [d EXCEPT
                                      ![p] = setSchemaFunc(@, serverSteps[i])]
                           /\ setSchemaCalls' =
                                [setSchemaCalls EXCEPT
                                   ![p] = Append(@, serverSteps[i])]
  /\ UNCHANGED <<server, beforeStepId, afterStepId, stepName,
                 deploymentProcess, newStepAddedIndex, updates,
                 projectErr, updateErr,
                 firstStep, lastWrite, roundTrip>>

(***************************************************************************)
(* resourceDeploymentStepUpdate                                            *)
(***************************************************************************)
\* lines 243-292: read the configuration, client.DeploymentProcess.Get,
\* rebuild the step under its ID, splice it in
UpdateGet(p) ==
  /\ Begin(p, "update")
  /\ d[p].Id # NoId
  /\ stepId' = [stepId EXCEPT ![p] = d[p].Id]
  /\ gets' = [gets EXCEPT ![p] = @ + 1]
  /\ \E b \in RefIds, a \in RefIds, n \in StepNames :
       /\ beforeStepId' = [beforeStepId EXCEPT ![p] = b]
       /\ afterStepId' = [afterStepId EXCEPT ![p] = a]
       /\ stepName' = [stepName EXCEPT ![p] = n]
       /\ \E err \in {"nil", ErrItemNotFound, OtherError} :
            /\ getErr' = [getErr EXCEPT ![p] = err]
            /\ IF err = ErrItemNotFound
               THEN /\ d' = [d EXCEPT ![p].Id = NoId]
                    /\ Finish(p, "nil")
                    /\ UNCHANGED <<orgDeploymentSteps, deploymentProcess,
                                   newStepAddedIndex, fetchedAt>>
               ELSE IF err # "nil"
               THEN /\ Finish(p, "error")
                    /\ UNCHANGED <<d, orgDeploymentSteps, deploymentProcess,
                                   newStepAddedIndex, fetchedAt>>
               ELSE LET s == UpdateSplice(serverSteps,
                                          buildDeploymentProcessStepFunc(n),
                                          b, a, d[p].Id)
                    IN  /\ orgDeploymentSteps' =
                             [orgDeploymentSteps EXCEPT ![p] = serverSteps]
                        /\ deploymentProcess' =
                             [deploymentProcess EXCEPT ![p] = s.Steps]
                        /\ newStepAddedIndex' =
                             [newStepAddedIndex EXCEPT
                                ![p] = s.newStepAddedIndex]
                        /\ fetchedAt' = [fetchedAt EXCEPT ![p] = writes]
                        /\ pc' = [pc EXCEPT ![p] = "update_update"]
                        /\ UNCHANGED <<d, ret>>
  /\ UNCHANGED <<server, setSchemaCalls, updates,
                 projectErr, updateErr,
                 firstStep, lastWrite, roundTrip>>

\* variant: the splice is redone on the list the server holds at the time of
\* the write, so that a write in between is not overwritten
UpdateUpdate_Rebased(p) ==
  /\ p \in DOMAIN pc
  /\ pc[p] = "update_update"
  /\ updates' = [updates EXCEPT ![p] = @ + 1]
  /\ \E err \in {"nil", OtherError} :
       /\ updateErr' = [updateErr EXCEPT ![p] = err]
       /\ IF err # "nil"
          THEN /\ Finish(p, "error")
               /\ UNCHANGED server
          ELSE /\ ServerStore(p, UpdateSplice(serverSteps,
                                   buildDeploymentProcessStepFunc(stepName[p]),
                                   beforeStepId[p], afterStepId[p],
                                   stepId[p]).Steps)
               /\ Finish(p, "nil")
  /\ UNCHANGED <<opsLeft, kind, d, locals, gets,
                 projectErr, getErr,
                 lastWrite, roundTrip>>

\* variant: the error of the Update is logged and dropped
UpdateUpdate_SwallowsError(p) ==
  /\ p \in DOMAIN pc
  /\ pc[p] = "update_update"
  /\ updates' = [updates EXCEPT ![p] = @ + 1]
  /\ \E err \in {"nil", OtherError} :
       /\ updateErr' = [updateErr EXCEPT ![p] = err]
       /\ IF err # "nil"
          THEN /\ Finish(p, "nil")
               /\ UNCHANGED server
          ELSE /\ ServerStore(p, deploymentProcess[p])
               /\ Finish(p, "nil")
  /\ UNCHANGED <<opsLeft, kind, d, locals, gets,
                 projectErr, getErr,
                 lastWrite, roundTrip>>

\* lines 294-300: client.DeploymentProcess.Update
UpdateUpdate(p) ==
  /\ p \in DOMAIN pc
  /\ pc[p] = "update_update"
  /\ updates' = [updates EXCEPT ![p] = @ + 1]
  /\ \E err \in {"nil", OtherError} :
       /\ updateErr' = [updateErr EXCEPT ![p] = err]
       /\ IF err # "nil"
          THEN /\ Finish(p, "error")
               /\ UNCHANGED server
          ELSE /\ ServerStore(p, deploymentProcess[p])
               /\ Finish(p, "nil")
  /\ UNCHANGED <<opsLeft, kind, d, locals, gets,
                 projectErr, getErr,
                 lastWrite, roundTrip>>

(***************************************************************************)
(* resourceDeploymentStepDelete                                            *)
(***************************************************************************)
\* variant: the handler goes on to the Update when the Get failed
DeleteGet_NoReturn(p) ==
  /\ Begin(p, "delete")
  /\ d[p].Id # NoId
  /\ stepId' = [stepId EXCEPT ![p] = d[p].Id]
  /\ gets' = [gets EXCEPT ![p] = @ + 1]
  /\ \E err \in {"nil", ErrItemNotFound, OtherError} :
       /\ getErr' = [getErr EXCEPT ![p] = err]
       /\ orgDeploymentSteps' =
            [orgDeploymentSteps EXCEPT
               ![p] = IF err = "nil" THEN serverSteps ELSE <<>>]
       /\ deploymentProcess' =
            [deploymentProcess EXCEPT
               ![p] = IF err = "nil" THEN DeleteSplice(serverSteps, d[p].Id)
                      ELSE <<>>]
       /\ fetchedAt' = [fetchedAt EXCEPT ![p] = writes]
       /\ pc' = [pc EXCEPT ![p] = "delete_update"]
       /\ UNCHANGED <<d, ret>>
  /\ UNCHANGED <<server, beforeStepId, afterStepId, stepName,
                 newStepAddedIndex, setSchemaCalls, updates,
                 projectErr, updateErr,
                 firstStep, lastWrite, roundTrip>>

\* lines 304-331: client.DeploymentProcess.Get, drop the step
DeleteGet(p) ==
  /\ Begin(p, "delete")
  /\ d[p].Id # NoId
  /\ stepId' = [stepId EXCEPT ![p] = d[p].Id]
  /\ gets' = [gets EXCEPT ![p] = @ + 1]
  /\ \E err \in {"nil", ErrItemNotFound, OtherError} :
       /\ getErr' = [getErr EXCEPT ![p] = err]
       /\ IF err = ErrItemNotFound
          THEN /\ d' = [d EXCEPT ![p].Id = NoId]
               /\ Finish(p, "nil")
               /\ UNCHANGED <<orgDeploymentSteps, deploymentProcess, fetchedAt>>
          ELSE IF err # "nil"
          THEN /\ Finish(p, "error")
               /\ UNCHANGED <<d, orgDeploymentSteps, deploymentProcess,
                              fetchedAt>>
          ELSE /\ orgDeploymentSteps' =
                    [orgDeploymentSteps EXCEPT ![p] = serverSteps]
               /\ deploymentProcess' =
                    [deploymentProcess EXCEPT
                       ![p] = DeleteSplice(serverSteps, d[p].Id)]
               /\ fetchedAt' = [fetchedAt EXCEPT ![p] = writes]
               /\ pc' = [pc EXCEPT ![p] = "delete_update"]
               /\ UNCHANGED <<d, ret>>
  /\ UNCHANGED <<server, beforeStepId, afterStepId, stepName,
                 newStepAddedIndex, setSchemaCalls, updates,
                 projectErr, updateErr,
                 firstStep, lastWrite, roundTrip>>

\* variant: the ID is cleared before the result of the Update is looked at
DeleteUpdate_ClearsIdFirst(p) ==
  /\ p \in DOMAIN pc
  /\ pc[p] = "delete_update"
  /\ updates' = [updates EXCEPT ![p] = @ + 1]
  /\ d' = [d EXCEPT ![p].Id = NoId]
  /\ \E err \in {"nil", OtherError} :
       /\ updateErr' = [updateErr EXCEPT ![p] = err]
       /\ IF err # "nil"
          THEN /\ Finish(p, "error")
               /\ UNCHANGED server
          ELSE /\ ServerStore(p, deploymentProcess[p])
               /\ Finish(p, "nil")
  /\ UNCHANGED <<opsLeft, kind, locals, gets,
                 projectErr, getErr,
                 lastWrite, roundTrip>>

\* lines 333-342: client.DeploymentProcess.Update, clear the ID
DeleteUpdate(p) ==
  /\ p \in DOMAIN pc
  /\ pc[p] = "delete_update"
  /\ updates' = [updates EXCEPT ![p] = @ + 1]
  /\ \E err \in {"nil", OtherError} :
       /\ updateErr' = [updateErr EXCEPT ![p] = err]
       /\ IF err # "nil"
          THEN /\ Finish(p, "error")
               /\ UNCHANGED <<server, d>>
          ELSE /\ ServerStore(p, deploymentProcess[p])
               /\ d' = [d EXCEPT ![p].Id = NoId]
               /\ Finish(p, "nil")
  /\ UNCHANGED <<opsLeft, kind, locals, gets,
                 projectErr, getErr,
                 lastWrite, roundTrip>>

(***************************************************************************)
(* The handler has returned to Terraform: its frame is gone, the resource  *)
(* data stays.                                                             *)
(***************************************************************************)
\* the list the server holds after the write of p's handler: the list sent,
\* with the ID the server gave to the step a create added
Stored(p) ==
  IF kind[p] = "create"
  THEN [deploymentProcess[p] EXCEPT ![newStepAddedIndex[p] + 1].ID = d[p].Id]
  ELSE deploymentProcess[p]

\* what the handler of p leaves behind when it has written: its
\* configuration, the list it fetched and the list the server stored
WriteOf(p) ==
  [kind |-> kind[p], beforeStepId |-> beforeStepId[p],
   afterStepId |-> afterStepId[p], stepName |-> stepName[p],
   fetched |-> orgDeploymentSteps[p], stored |-> Stored(p)]

Return(p) ==
  /\ p \in DOMAIN pc
  /\ pc[p] = "done"
  /\ lastWrite' = IF ret[p] = "nil" /\ updates[p] = 1
                  THEN [lastWrite EXCEPT ![p] = WriteOf(p)]
                  ELSE lastWrite
  /\ pc' = [pc EXCEPT ![p] = "idle"]
  /\ kind' = [kind EXCEPT ![p] = "none"]
  /\ ret' = [ret EXCEPT ![p] = "none"]
  /\ gets' = [gets EXCEPT ![p] = 0]
  /\ updates' = [updates EXCEPT ![p] = 0]
  /\ projectErr' = [projectErr EXCEPT ![p] = "none"]
  /\ getErr' = [getErr EXCEPT ![p] = "none"]
  /\ updateErr' = [updateErr EXCEPT ![p] = "none"]
  /\ NoLocals(p)
  /\ UNCHANGED <<server, opsLeft, d,
                 roundTrip>>

Next ==
  \E p \in Resources :
    \/ CreateProjectGet(p)
    \/ CreateGet(p)
    \/ CreateUpdate(p)
    \/ Read(p)
    \/ UpdateGet(p)
    \/ UpdateUpdate(p)
    \/ DeleteGet(p)
    \/ DeleteUpdate(p)
    \/ Return(p)

Spec == Init /\ [][Next]_vars

SpecPar == InitPar /\ [][Next]_vars

(***************************************************************************)
(* The handlers of the first_step revision (src/unnamed/part_000).  Create *)
(* and update read first_step and after_step_id and splice with them; the  *)
(* client calls, the delete handler and the return are as above.           *)
(***************************************************************************)
\* part_000 lines 292-304: read the configuration, client.Project.Get
FirstStepCreateProjectGet(p) ==
  /\ Begin(p, "create")
  /\ d[p].Id = NoId
  /\ \E f \in BOOLEAN, a \in RefIds, n \in StepNames :
       /\ firstStep' = [firstStep EXCEPT ![p] = f]
       /\ afterStepId' = [afterStepId EXCEPT ![p] = a]
       /\ stepName' = [stepName EXCEPT ![p] = n]
  /\ \E err \in {"nil", OtherError} :
       /\ projectErr' = [projectErr EXCEPT ![p] = err]
       /\ IF err # "nil"
          THEN Finish(p, "error")
          ELSE /\ pc' = [pc EXCEPT ![p] = "create_get"]
               /\ UNCHANGED ret
  /\ UNCHANGED <<server, d, stepId, beforeStepId, orgDeploymentSteps,
                 deploymentProcess, newStepAddedIndex, fetchedAt,
                 setSchemaCalls, gets, updates, getErr, updateErr, lastWrite, roundTrip>>

\* part_000 lines 306-338: client.DeploymentProcess.Get, build the step,
\* splice it in
FirstStepCreateGet(p) ==
  /\ p \in DOMAIN pc
  /\ pc[p] = "create_get"
  /\ gets' = [gets EXCEPT ![p] = @ + 1]
  /\ \E err \in {"nil", ErrItemNotFound, OtherError} :
       /\ getErr' = [getErr EXCEPT ![p] = err]
       /\ IF err # "nil"
          THEN /\ Finish(p, "error")
               /\ UNCHANGED <<orgDeploymentSteps, deploymentProcess,
                              newStepAddedIndex, fetchedAt>>
          ELSE LET s == FirstStepCreateSplice(serverSteps,
                          buildDeploymentProcessStepFunc(stepName[p]),
                          firstStep[p], afterStepId[p])
               IN  /\ orgDeploymentSteps' =
                        [orgDeploymentSteps EXCEPT ![p] = serverSteps]
                   /\ deploymentProcess' =
                        [deploymentProcess EXCEPT ![p] = s.Steps]
                   /\ newStepAddedIndex' =
                        [newStepAddedIndex EXCEPT ![p] = s.newStepAddedIndex]
                   /\ fetchedAt' = [fetchedAt EXCEPT ![p] = writes]
                   /\ pc' = [pc EXCEPT ![p] = "create_update"]
                   /\ UNCHANGED ret
  /\ UNCHANGED <<server, opsLeft, kind, d, stepId, beforeStepId,
                 afterStepId, stepName, firstStep, setSchemaCalls, updates,
                 projectErr, updateErr, lastWrite, roundTrip>>

\* part_000 lines 414-463: read the configuration,
\* client.DeploymentProcess.Get, rebuild the step under its ID, splice it in
FirstStepUpdateGet(p) ==
  /\ Begin(p, "update")
  /\ d[p].Id # NoId
  /\ stepId' = [stepId EXCEPT ![p] = d[p].Id]
  /\ gets' = [gets EXCEPT ![p] = @ + 1]
  /\ \E f \in BOOLEAN, a \in RefIds, n \in StepNames :
       /\ firstStep' = [firstStep EXCEPT ![p] = f]
       /\ afterStepId' = [afterStepId EXCEPT ![p] = a]
       /\ stepName' = [stepName EXCEPT ![p] = n]
       /\ \E err \in {"nil", ErrItemNotFound, OtherError} :
            /\ getErr' = [getErr EXCEPT ![p] = err]
            /\ IF err = ErrItemNotFound
               THEN /\ d' = [d EXCEPT ![p].Id = NoId]
                    /\ Finish(p, "nil")
                    /\ UNCHANGED <<orgDeploymentSteps, deploymentProcess,
                                   newStepAddedIndex, fetchedAt>>
               ELSE IF err # "nil"
               THEN /\ Finish(p, "error")
                    /\ UNCHANGED <<d, orgDeploymentSteps, deploymentProcess,
                                   newStepAddedIndex, fetchedAt>>
               ELSE LET s == FirstStepUpdateSplice(serverSteps,
                               buildDeploymentProcessStepFunc(n),
                               f, a, d[p].Id)
                    IN  /\ orgDeploymentSteps' =
                             [orgDeploymentSteps EXCEPT ![p] = serverSteps]
                        /\ deploymentProcess' =
                             [deploymentProcess EXCEPT ![p] = s.Steps]
                        /\ newStepAddedIndex' =
                             [newStepAddedIndex EXCEPT
                                ![p] = s.newStepAddedIndex]
                        /\ fetchedAt' = [fetchedAt EXCEPT ![p] = writes]
                        /\ pc' = [pc EXCEPT ![p] = "update_update"]
                        /\ UNCHANGED <<d, ret>>
  /\ UNCHANGED <<server, beforeStepId, setSchemaCalls, updates,
                 projectErr, updateErr, lastWrite, roundTrip>>

(***************************************************************************)
(* resourceDeploymentStepRead of the first_step revision (the whole        *)
(* handler: it makes one call).  f is the first_step of the state the      *)
(* handler is given; d.Set("first_step", ...) overwrites it when the step  *)
(* is found.  The enabled_features the handler copies from the step's      *)
(* first action are part of the builder/setter model below, the steps here *)
(* carry ID and name.                                                      *)
(***************************************************************************)
\* part_000 lines 360-411
FirstStepRead(p) ==
  /\ Begin(p, "read")
  /\ d[p].Id # NoId
  /\ stepId' = [stepId EXCEPT ![p] = d[p].Id]
  /\ gets' = [gets EXCEPT ![p] = @ + 1]
  /\ \E f \in BOOLEAN, err \in {"nil", ErrItemNotFound, OtherError} :
       /\ getErr' = [getErr EXCEPT ![p] = err]
       /\ IF err = ErrItemNotFound
          THEN /\ d' = [d EXCEPT ![p].Id = NoId]
               /\ Finish(p, "nil")
               /\ firstStep' = [firstStep EXCEPT ![p] = f]
               /\ UNCHANGED <<afterStepId, orgDeploymentSteps, fetchedAt,
                              setSchemaCalls>>
          ELSE IF err # "nil"
          THEN /\ Finish(p, "error")
               /\ firstStep' = [firstStep EXCEPT ![p] = f]
               /\ UNCHANGED <<d, afterStepId, orgDeploymentSteps, fetchedAt,
                              setSchemaCalls>>
          ELSE LET s == FirstStepFind(serverSteps, d[p].Id)
               IN  /\ orgDeploymentSteps' =
                        [orgDeploymentSteps EXCEPT ![p] = serverSteps]
                   /\ fetchedAt' = [fetchedAt EXCEPT ![p] = writes]
                   /\ Finish(p, "nil")
                   /\ IF s.deploymentStep = 0
                      THEN /\ d' = [d EXCEPT ![p].Id = NoId]
                           /\ firstStep' = [firstStep EXCEPT ![p] = f]
                           /\ UNCHANGED <<afterStepId, setSchemaCalls>>
                      ELSE /\ firstStep' =
                                [firstStep EXCEPT ![p] = s.firstStep]
                           /\ afterStepId' =
                                [afterStepId EXCEPT
                                   ![p] = IF s.prevDeploymentStep # 0
                                          THEN serverSteps[s.prevDeploymentStep].ID
                                          ELSE @]
                           /\ d' = [d EXCEPT
                                      ![p] = setSchemaFunc(
                                               @, serverSteps[s.deploymentStep])]
                           /\ setSchemaCalls' =
                                [setSchemaCalls EXCEPT
                                   ![p] = Append(@, serverSteps[s.deploymentStep])]
  /\ UNCHANGED <<server, beforeStepId, stepName,
                 deploymentProcess, newStepAddedIndex, updates,
                 projectErr, updateErr, lastWrite, roundTrip>>

NextFirstStep ==
  \E p \in Resources :
    \/ FirstStepCreateProjectGet(p)
    \/ FirstStepCreateGet(p)
    \/ CreateUpdate(p)
    \/ FirstStepRead(p)
    \/ FirstStepUpdateGet(p)
    \/ UpdateUpdate(p)
    \/ DeleteGet(p)
    \/ DeleteUpdate(p)
    \/ Return(p)

\* successive applies of one resource of the first_step revision
SpecFirstStep == Init /\ [][NextFirstStep]_vars

(***************************************************************************)
(* The positional rule, stated on lists.                                   *)
(***************************************************************************)
\* before-reference first: before the before-step if there is one, else
\* after the after-step if there is one, else at the end
BeforeElseAfterElseAppend(steps, new, before, after) ==
  LET b == IndexOf(steps, before)
      a == IndexOf(steps, after)
  IN  IF b # 0 THEN InsertAt(steps, b, new)
      ELSE IF a # 0 THEN InsertAt(steps, a + 1, new)
      ELSE Append(steps, new)

\* the same, except that an after-step that precedes the before-step decides
FirstMatchElseAppend(steps, new, before, after) ==
  LET b == IndexOf(steps, before)
      a == IndexOf(steps, after)
  IN  IF b # 0 /\ (a = 0 \/ b <= a) THEN InsertAt(steps, b, new)
      ELSE IF a # 0 THEN InsertAt(steps, a + 1, new)
      ELSE Append(steps, new)

\* handler k of resource p has issued its DeploymentProcess.Update call; the
\* call carried deploymentProcess[p]
Sent(p, k) == kind[p] = k /\ updates[p] = 1

\* the step create inserts / the step update puts back
NewStep(p) == Step(stepId[p], stepName[p])

\* the fetched lists the handlers work on have pairwise distinct IDs
FetchedDistinct == \A p \in DOMAIN pc : DistinctIds(orgDeploymentSteps[p])

(***************************************************************************)
(* C1 (as stated).  Create writes the fetched list with the new step       *)
(* inserted before the before_step_id step if it exists, otherwise after   *)
(* the after_step_id step if it exists, otherwise at the end.              *)
(***************************************************************************)
C1_CreateBeforeElseAfterElseAppend ==
  \A p \in DOMAIN pc :
    Sent(p, "create") =>
      deploymentProcess[p] =
        BeforeElseAfterElseAppend(orgDeploymentSteps[p], NewStep(p),
                                  beforeStepId[p], afterStepId[p])

(***************************************************************************)
(* C1 (amended).  Create writes the fetched list with the new step         *)
(* inserted (a) before the before_step_id step if it exists and no         *)
(* after_step_id step precedes it in the list, (b) otherwise after the     *)
(* after_step_id step if it exists, (c) otherwise at the end.              *)
(***************************************************************************)
C1_CreateFirstMatchElseAppend ==
  \A p \in DOMAIN pc :
    Sent(p, "create") =>
      /\ DistinctIds(orgDeploymentSteps[p])
      /\ deploymentProcess[p] =
           FirstMatchElseAppend(orgDeploymentSteps[p], NewStep(p),
                                beforeStepId[p], afterStepId[p])

\* a create has written a list in which the after-step precedes the
\* before-step, with a step between the two
C1_Witness ==
  \E p \in DOMAIN pc :
    /\ Sent(p, "create")
    /\ IndexOf(orgDeploymentSteps[p], afterStepId[p]) = 1
    /\ IndexOf(orgDeploymentSteps[p], beforeStepId[p]) = 3
    /\ deploymentProcess[p][2] = NewStep(p)

(***************************************************************************)
(* C2 (as stated).  Create, both references match: the new step is placed  *)
(* immediately before the before_step_id step, whatever the order of the   *)
(* two referenced steps.                                                   *)
(***************************************************************************)
BothMatch(p) ==
  /\ IndexOf(orgDeploymentSteps[p], beforeStepId[p]) # 0
  /\ IndexOf(orgDeploymentSteps[p], afterStepId[p]) # 0

C2_BeforeAlwaysWins ==
  \A p \in DOMAIN pc :
    Sent(p, "create") /\ BothMatch(p) =>
      LET b == IndexOf(orgDeploymentSteps[p], beforeStepId[p])
      IN  deploymentProcess[p] = InsertAt(orgDeploymentSteps[p], b, NewStep(p))

(***************************************************************************)
(* C2 (amended).  Create, both references match: the new step is placed    *)
(* immediately before the before_step_id step when that step is the        *)
(* after_step_id step or precedes it, and immediately after the            *)
(* after_step_id step when the after_step_id step comes first.             *)
(***************************************************************************)
C2_FirstReferencedStepWins ==
  \A p \in DOMAIN pc :
    Sent(p, "create") /\ BothMatch(p) =>
      LET org == orgDeploymentSteps[p]
          b == IndexOf(org, beforeStepId[p])
          a == IndexOf(org, afterStepId[p])
      IN  /\ b <= a => deploymentProcess[p] = InsertAt(org, b, NewStep(p))
          /\ a < b => deploymentProcess[p] = InsertAt(org, a + 1, NewStep(p))

\* a create has written a list where both references matched and the
\* before-step came first, with the new step before it
C2_Witness ==
  \E p \in DOMAIN pc :
    /\ Sent(p, "create")
    /\ IndexOf(orgDeploymentSteps[p], beforeStepId[p]) = 2
    /\ IndexOf(orgDeploymentSteps[p], afterStepId[p]) = 3
    /\ deploymentProcess[p][2] = NewStep(p)
    /\ deploymentProcess[p][3].ID = beforeStepId[p]

(***************************************************************************)
(* C3.  Create, exactly one reference matches: a before-match at position  *)
(* i puts the new step at position i and the matched step at i+1; an       *)
(* after-match at position i puts the new step at i+1, right after it.     *)
(***************************************************************************)
C3_SingleReference ==
  \A p \in DOMAIN pc :
    Sent(p, "create") =>
      LET org == orgDeploymentSteps[p]
          new == deploymentProcess[p]
          b == IndexOf(org, beforeStepId[p])
          a == IndexOf(org, afterStepId[p])
      IN  /\ b # 0 /\ a = 0 =>
               /\ new[b] = NewStep(p)
               /\ new[b + 1] = org[b]
          /\ a # 0 /\ b = 0 =>
               /\ new[a] = org[a]
               /\ new[a + 1] = NewStep(p)

\* a create has written a list where only before_step_id matched, and the
\* other reference named a step that is not in the list
C3_Witness ==
  \E p \in DOMAIN pc :
    /\ Sent(p, "create")
    /\ IndexOf(orgDeploymentSteps[p], beforeStepId[p]) = 2
    /\ afterStepId[p] # NoId
    /\ IndexOf(orgDeploymentSteps[p], afterStepId[p]) = 0
    /\ deploymentProcess[p][2] = NewStep(p)

(***************************************************************************)
(* C4.  Create, no reference matches (unset, or naming a step that is not  *)
(* in the list, the empty list included): the written list is the fetched  *)
(* list of N steps followed by the new step at position N+1.               *)
(***************************************************************************)
C4_AppendWhenNoMatch ==
  \A p \in DOMAIN pc :
    Sent(p, "create") =>
      LET org == orgDeploymentSteps[p]
      IN  /\ IndexOf(org, beforeStepId[p]) = 0
          /\ IndexOf(org, afterStepId[p]) = 0
          => /\ deploymentProcess[p] = Append(org, NewStep(p))
             /\ Len(deploymentProcess[p]) = Len(org) + 1
             /\ deploymentProcess[p][Len(org) + 1] = NewStep(p)

\* a create has appended to a non-empty list although before_step_id was set
\* (to a step that is not in the list)
C4_Witness ==
  \E p \in DOMAIN pc :
    /\ Sent(p, "create")
    /\ Len(orgDeploymentSteps[p]) = 2
    /\ beforeStepId[p] # NoId
    /\ afterStepId[p] = NoId
    /\ IndexOf(orgDeploymentSteps[p], beforeStepId[p]) = 0
    /\ deploymentProcess[p][3] = NewStep(p)

(***************************************************************************)
(* The update rule, stated on lists: the references are resolved on the    *)
(* fetched list while the edited step is still in it; the first step (in   *)
(* list order) that matches a reference decides where the rebuilt step     *)
(* goes, and the old step is left out.                                     *)
(***************************************************************************)
\* position of the first step that carries one of the two IDs, 0 if none
FirstMatch(steps, before, after) ==
  LET b == IndexOf(steps, before)
      a == IndexOf(steps, after)
  IN  IF b = 0 THEN a
      ELSE IF a = 0 THEN b
      ELSE IF b <= a THEN b ELSE a

ResolveThenRemove(steps, new, before, after, id) ==
  LET m == FirstMatch(steps, before, after)
      n == Len(steps)
  IN  IF m = 0 THEN Append(WithoutId(steps, id), new)
      ELSE IF steps[m].ID = before
      THEN WithoutId(SubSeq(steps, 1, m - 1), id) \o <<new>>
             \o WithoutId(SubSeq(steps, m, n), id)
      ELSE WithoutId(SubSeq(steps, 1, m), id) \o <<new>>
             \o WithoutId(SubSeq(steps, m + 1, n), id)

(***************************************************************************)
(* C5 (as stated).  Update writes the list obtained by removing the step   *)
(* with the resource's ID from the fetched list and then applying the      *)
(* create rule (before, else after, else append) to the rest, the rebuilt  *)
(* step carrying the resource's ID.                                        *)
(***************************************************************************)
C5_UpdateIsRemoveThenInsert ==
  \A p \in DOMAIN pc :
    Sent(p, "update") =>
      deploymentProcess[p] =
        BeforeElseAfterElseAppend(WithoutId(orgDeploymentSteps[p], stepId[p]),
                                  NewStep(p), beforeStepId[p], afterStepId[p])

(***************************************************************************)
(* C5 (amended).  Update resolves the references on the fetched list with  *)
(* the edited step still in it (the first step in list order that matches  *)
(* a reference decides: the rebuilt step goes before a before-match, after *)
(* an after-match, to the end when nothing matches) and leaves the old     *)
(* step out.  This is remove-then-insert under the rule create implements  *)
(* whenever neither reference is the resource's own ID.                    *)
(***************************************************************************)
C5_UpdateResolvesThenRemoves ==
  \A p \in DOMAIN pc :
    Sent(p, "update") =>
      LET org == orgDeploymentSteps[p]
      IN  /\ NewStep(p).ID = stepId[p] /\ stepId[p] # NoId
          /\ deploymentProcess[p] =
               ResolveThenRemove(org, NewStep(p), beforeStepId[p],
                                 afterStepId[p], stepId[p])
          /\ beforeStepId[p] # stepId[p] /\ afterStepId[p] # stepId[p]
             => deploymentProcess[p] =
                  FirstMatchElseAppend(WithoutId(org, stepId[p]), NewStep(p),
                                       beforeStepId[p], afterStepId[p])

\* an update has moved its step: the step was first of three, the
\* references name the two other steps, and the rebuilt step is now second
C5_Witness ==
  \E p \in DOMAIN pc :
    /\ Sent(p, "update")
    /\ Len(orgDeploymentSteps[p]) = 3
    /\ IndexOf(orgDeploymentSteps[p], stepId[p]) = 1
    /\ IndexOf(orgDeploymentSteps[p], beforeStepId[p]) = 3
    /\ IndexOf(orgDeploymentSteps[p], afterStepId[p]) = 0
    /\ deploymentProcess[p][2] = NewStep(p)
    /\ deploymentProcess[p][1] = orgDeploymentSteps[p][2]

(***************************************************************************)
(* C6 (as stated).  Update with a reference equal to the edited step's own *)
(* ID: the self-reference matches nothing, and when no other reference     *)
(* matches the rebuilt step is appended at the end.                        *)
(***************************************************************************)
SelfReference(p) ==
  beforeStepId[p] = stepId[p] \/ afterStepId[p] = stepId[p]

\* each reference is the resource's own ID or names no fetched step
NoOtherMatch(p) ==
  \A r \in {beforeStepId[p], afterStepId[p]} :
    r = stepId[p] \/ IndexOf(orgDeploymentSteps[p], r) = 0

C6_SelfReferenceAppends ==
  \A p \in DOMAIN pc :
    Sent(p, "update") /\ SelfReference(p) /\ NoOtherMatch(p) =>
      deploymentProcess[p] =
        Append(WithoutId(orgDeploymentSteps[p], stepId[p]), NewStep(p))

(***************************************************************************)
(* C6 (amended).  Update with a reference equal to the edited step's own   *)
(* ID: the references are resolved while the edited step is still in the   *)
(* list, so the self-reference matches the edited step; when no other      *)
(* reference matches, the rebuilt step takes the edited step's old         *)
(* position and every other step keeps its position.  It is appended only  *)
(* when the edited step is missing from the fetched list.                  *)
(***************************************************************************)
C6_SelfReferenceKeepsPosition ==
  \A p \in DOMAIN pc :
    Sent(p, "update") /\ SelfReference(p) /\ NoOtherMatch(p) =>
      LET org == orgDeploymentSteps[p]
          j == IndexOf(org, stepId[p])
      IN  IF j # 0
          THEN deploymentProcess[p] = [org EXCEPT ![j] = NewStep(p)]
          ELSE deploymentProcess[p] = Append(org, NewStep(p))

\* an update whose before_step_id is its own ID has left its step first of
\* three
C6_Witness ==
  \E p \in DOMAIN pc :
    /\ Sent(p, "update")
    /\ beforeStepId[p] = stepId[p]
    /\ afterStepId[p] = NoId
    /\ Len(orgDeploymentSteps[p]) = 3
    /\ IndexOf(orgDeploymentSteps[p], stepId[p]) = 1
    /\ deploymentProcess[p][1] = NewStep(p)

(***************************************************************************)
(* C7.  Update, no reference matches a step of the fetched list: the       *)
(* written list is the other steps in their original order followed by     *)
(* the rebuilt step.                                                       *)
(***************************************************************************)
C7_UpdateMovesLast ==
  \A p \in DOMAIN pc :
    Sent(p, "update") =>
      LET org == orgDeploymentSteps[p]
      IN  /\ IndexOf(org, beforeStepId[p]) = 0
          /\ IndexOf(org, afterStepId[p]) = 0
          => /\ deploymentProcess[p] =
                  Append(WithoutId(org, stepId[p]), NewStep(p))
             /\ deploymentProcess[p][Len(deploymentProcess[p])] = NewStep(p)

\* an update without matching references has moved its step from the first
\* to the last of three positions
C7_Witness ==
  \E p \in DOMAIN pc :
    /\ Sent(p, "update")
    /\ Len(orgDeploymentSteps[p]) = 3
    /\ IndexOf(orgDeploymentSteps[p], stepId[p]) = 1
    /\ IndexOf(orgDeploymentSteps[p], beforeStepId[p]) = 0
    /\ IndexOf(orgDeploymentSteps[p], afterStepId[p]) = 0
    /\ deploymentProcess[p][3] = NewStep(p)
    /\ deploymentProcess[p][1] = orgDeploymentSteps[p][2]

(***************************************************************************)
(* C8.  Delete writes the fetched list without the steps that carry the    *)
(* resource's ID: the other steps are kept, unmodified and in their order, *)
(* and no step with that ID is in the written list.                        *)
(***************************************************************************)
C8_DeleteRemovesOnlyTheStep ==
  \A p \in DOMAIN pc :
    Sent(p, "delete") =>
      /\ deploymentProcess[p] = WithoutId(orgDeploymentSteps[p], stepId[p])
      /\ stepId[p] \notin Ids(deploymentProcess[p])
      /\ \A i \in 1..Len(orgDeploymentSteps[p]) :
           orgDeploymentSteps[p][i].ID # stepId[p] =>
             \E j \in 1..Len(deploymentProcess[p]) :
               deploymentProcess[p][j] = orgDeploymentSteps[p][i]

\* a delete has removed the middle one of three steps
C8_Witness ==
  \E p \in DOMAIN pc :
    /\ Sent(p, "delete")
    /\ Len(orgDeploymentSteps[p]) = 3
    /\ IndexOf(orgDeploymentSteps[p], stepId[p]) = 2
    /\ deploymentProcess[p] =
         <<orgDeploymentSteps[p][1], orgDeploymentSteps[p][3]>>

(***************************************************************************)
(* C9.  Lost update.  When the handlers of two resources both fetch the    *)
(* step list before either writes it, neither is rejected: each handler    *)
(* whose Update call the server accepted returns nil, and the list on the  *)
(* server is the later writer's list alone, computed from the list it      *)
(* fetched; a step the earlier handler created is not in it.               *)
(* (Checked under SpecPar, where the two handlers run in parallel.)        *)
(***************************************************************************)
\* the list on the server is what p sent, with the IDs filled in
ServerHoldsListOf(p) ==
  serverSteps =
    AssignIds(deploymentProcess[p], nextId - NumNew(deploymentProcess[p]))

\* p and q have returned, both wrote, p wrote last, and p had fetched before
\* q wrote
Overwrote(p, q) ==
  /\ p # q
  /\ pc[p] = "done" /\ pc[q] = "done"
  /\ updates[p] = 1 /\ updateErr[p] = "nil"
  /\ updates[q] = 1 /\ updateErr[q] = "nil"
  /\ lastWriter = p
  /\ fetchedAt[p] = 0

C9_LastWriteWins ==
  \A p \in DOMAIN pc :
    /\ pc[p] = "done" /\ updates[p] = 1 /\ updateErr[p] = "nil"
       => ret[p] = "nil"
    /\ pc[p] = "done" /\ lastWriter = p => ServerHoldsListOf(p)
    /\ \A q \in DOMAIN pc :
         Overwrote(p, q) =>
           /\ ret[p] = "nil" /\ ret[q] = "nil"
           /\ writes = 2
           /\ orgDeploymentSteps[p] = orgDeploymentSteps[q]
           /\ kind[q] = "create" =>
                d[q].Id # NoId /\ d[q].Id \notin Ids(serverSteps)

\* two creates have both fetched the initial list and both returned nil; the
\* step the first one created is not on the server
C9_Witness ==
  \E p, q \in DOMAIN pc :
    /\ Overwrote(p, q)
    /\ kind[p] = "create" /\ kind[q] = "create"
    /\ ret[p] = "nil" /\ ret[q] = "nil"
    /\ fetchedAt[q] = 0
    /\ d[q].Id # NoId
    /\ d[q].Id \notin Ids(serverSteps)
    /\ d[p].Id \in Ids(serverSteps)
    /\ Len(serverSteps) = Len(orgDeploymentSteps[q]) + 1

(***************************************************************************)
(* C10 (as stated).  Create, update and delete each perform exactly one    *)
(* DeploymentProcess.Get and, only after it has returned successfully, at  *)
(* most one DeploymentProcess.Update; read issues no Update.               *)
(***************************************************************************)
Writers == {"create", "update", "delete"}

UpdateOnlyAfterGet(p) ==
  /\ updates[p] <= 1
  /\ updates[p] = 1 => gets[p] = 1 /\ getErr[p] = "nil"
  /\ kind[p] = "read" => updates[p] = 0

C10_ExactlyOneGet ==
  \A p \in DOMAIN pc :
    /\ pc[p] = "done" /\ kind[p] \in Writers => gets[p] = 1
    /\ UpdateOnlyAfterGet(p)

(***************************************************************************)
(* C10 (amended).  Create, update and delete each perform at most one      *)
(* DeploymentProcess.Get (exactly one, except that a create whose          *)
(* Project.Get fails performs none) and, only after it has returned        *)
(* successfully, at most one DeploymentProcess.Update, which carries the   *)
(* whole list: after it the server holds the list the handler built.  Read *)
(* issues no Update.                                                       *)
(***************************************************************************)
C10_SingleRoundTrip ==
  \A p \in DOMAIN pc :
    /\ gets[p] <= 1
    /\ pc[p] = "done" /\ kind[p] \in Writers =>
         \/ gets[p] = 1
         \/ kind[p] = "create" /\ projectErr[p] = OtherError /\ gets[p] = 0
    /\ pc[p] = "done" /\ kind[p] \in {"update", "delete"} => gets[p] = 1
    /\ UpdateOnlyAfterGet(p)
    /\ pc[p] = "done" /\ updates[p] = 1 /\ updateErr[p] = "nil"
         => ServerHoldsListOf(p)

\* a delete has returned after one successful Get and one Update
C10_Witness ==
  \E p \in DOMAIN pc :
    /\ pc[p] = "done" /\ kind[p] = "delete"
    /\ gets[p] = 1 /\ getErr[p] = "nil"
    /\ updates[p] = 1 /\ updateErr[p] = "nil"
    /\ serverSteps = deploymentProcess[p]

(***************************************************************************)
(* C11: in create, newStepAddedIndex is the position of the new step in    *)
(* the list written to the server (the new step stands there and nowhere   *)
(* else), and after a successful create the stored resource ID is the ID   *)
(* the server gave to the step at that position: a fresh ID, the ID of no  *)
(* fetched step.                                                           *)
(***************************************************************************)
IndexIsPositionOfNewStep(p) ==
  LET k == newStepAddedIndex[p] + 1
  IN  /\ k \in 1..Len(deploymentProcess[p])
      /\ \A i \in 1..Len(deploymentProcess[p]) :
           deploymentProcess[p][i].ID = NoId <=> i = k
      /\ deploymentProcess[p][k] = NewStep(p)

Created(p) == Sent(p, "create") /\ ret[p] = "nil"

C11_IndexIsPositionOfNewStep ==
  \A p \in DOMAIN pc :
    /\ Sent(p, "create") => IndexIsPositionOfNewStep(p)
    /\ Created(p) =>
         /\ d[p].Id # NoId
         /\ d[p].Id \notin Ids(orgDeploymentSteps[p])
         /\ serverSteps[newStepAddedIndex[p] + 1] =
              Step(d[p].Id, stepName[p])
         /\ \A i \in 1..Len(serverSteps) :
              i # newStepAddedIndex[p] + 1 => serverSteps[i].ID # d[p].Id

\* a create that put the new step between two fetched steps has returned
C11_Witness ==
  \E p \in DOMAIN pc :
    /\ Created(p)
    /\ Len(orgDeploymentSteps[p]) >= 2
    /\ newStepAddedIndex[p] \in 1..(Len(orgDeploymentSteps[p]) - 1)
    /\ serverSteps[newStepAddedIndex[p] + 1].ID = d[p].Id

(***************************************************************************)
(* C12: a handler returns a non-nil error whenever one of its client calls *)
(* (Project.Get, DeploymentProcess.Get, DeploymentProcess.Update) returned *)
(* an error.  As stated this does not hold: read, update and delete take   *)
(* ErrItemNotFound from DeploymentProcess.Get as "the resource is gone".   *)
(***************************************************************************)
Failed(err) == err \notin {"none", "nil"}

SomeCallFailed(p) ==
  Failed(projectErr[p]) \/ Failed(getErr[p]) \/ Failed(updateErr[p])

\* the Get of a read, update or delete answered ErrItemNotFound
GoneOnGet(p) ==
  kind[p] \in {"read", "update", "delete"} /\ getErr[p] = ErrItemNotFound

C12_EveryClientErrorPropagated ==
  \A p \in DOMAIN pc :
    pc[p] = "done" /\ SomeCallFailed(p) => ret[p] = "error"

(***************************************************************************)
(* C12 (as the code has it): a finished handler returns a non-nil error    *)
(* exactly when one of its client calls returned an error, except that     *)
(* read, update and delete answer ErrItemNotFound from DeploymentProcess.  *)
(* Get by clearing the resource ID and returning nil, without any Update.  *)
(* Create propagates ErrItemNotFound like every other error.               *)
(***************************************************************************)
C12_ClientErrorsPropagatedExceptNotFound ==
  \A p \in DOMAIN pc :
    pc[p] = "done" =>
      /\ GoneOnGet(p) =>
           ret[p] = "nil" /\ d[p].Id = NoId /\ updates[p] = 0
      /\ ~GoneOnGet(p) => (ret[p] = "error" <=> SomeCallFailed(p))

\* an update whose DeploymentProcess.Update failed has returned the error
C12_Witness ==
  \E p \in DOMAIN pc :
    /\ pc[p] = "done"
    /\ kind[p] = "update"
    /\ updateErr[p] = OtherError
    /\ ret[p] = "error"

(***************************************************************************)
(* The step builders and the schema setters (src/unnamed/part_000 and      *)
(* resource_deployment_step_iis_website.go).  A builder maps the fields of *)
(* a schema.ResourceData to a DeploymentStep with two property bags, the   *)
(* step's and its first action's; a setter maps the step back to fields.   *)
(***************************************************************************)
MaxBindings == 1

\* a Go map[string]string: a function from its keys to their values
Put(bag, key, value) == (key :> value) @@ bag
Has(bag, key) == key \in DOMAIN bag
\* Go's map read without the ok: the zero value for a missing key
Lookup(bag, key, zero) == IF Has(bag, key) THEN bag[key] ELSE zero

\* strconv.FormatBool
strconvFormatBool(b) == IF b THEN "true" ELSE "false"

\* formatBool, a helper of the provider: Octopus spells booleans capitalised
formatBool(b) == IF b THEN "True" ELSE "False"

\* strconv.ParseBool: err is TRUE when the string is no boolean
strconvParseBool(str) ==
  IF str \in {"1", "t", "T", "TRUE", "true", "True"}
  THEN [value |-> TRUE, err |-> FALSE]
  ELSE IF str \in {"0", "f", "F", "FALSE", "false", "False"}
  THEN [value |-> FALSE, err |-> FALSE]
  ELSE [value |-> FALSE, err |-> TRUE]

(***************************************************************************)
(* A string that the code concatenates from parts and later searches or    *)
(* splits is kept as the sequence of its parts: a separator is a part of   *)
(* its own, and no other part contains a separator.                        *)
(***************************************************************************)
\* strings.Join
RECURSIVE stringsJoin(_, _)
stringsJoin(list, sep) ==
  IF list = <<>> THEN <<>>
  ELSE IF Len(list) = 1 THEN <<list[1]>>
  ELSE <<list[1], sep>> \o stringsJoin(Tail(list), sep)

\* strings.Split: the parts between the separators, an empty string where
\* two separators meet or the string begins or ends with one
RECURSIVE SplitFrom(_, _, _, _)
SplitFrom(parts, sep, cur, acc) ==
  IF parts = <<>> THEN Append(acc, cur)
  ELSE IF parts[1] = sep
  THEN SplitFrom(Tail(parts), sep, "", Append(acc, cur))
  ELSE SplitFrom(Tail(parts), sep, cur \o parts[1], acc)

stringsSplit(parts, sep) == SplitFrom(parts, sep, "", <<>>)

\* strings.Contains for a substring that can only occur as a whole part
stringsContains(parts, substr) == \E i \in 1..Len(parts) : parts[i] = substr

\* s += "," + name
AppendFeature(parts, name) == parts \o <<",", name>>

(***************************************************************************)
(* The configurations the builders are given.  A block that the schema     *)
(* declares as a set of at most one element is a sequence of length 0 or 1.*)
(***************************************************************************)
ScriptTypes == {"PowerShell", "CSharp", "Bash", "FSharp"}
ScriptBodies == {"Write-Host hello"}
ScriptBlocks ==
  {<<>>} \cup {<<[type |-> t, body |-> b]>> : t \in ScriptTypes, b \in ScriptBodies}

ApplicationPools ==
  {<<[name |-> "pool", framework |-> "v4.0", identity |-> "SpecificUser",
      username |-> "svc", password |-> pw, start |-> st]>> :
     pw \in {"", "secret"}, st \in BOOLEAN}

BindingValues ==
  {[protocol |-> "https", ip |-> "*", port |-> "443", host |-> "",
    enable |-> TRUE, thumbprint |-> "", cert_var |-> "cert",
    require_sni |-> FALSE],
   [protocol |-> "http", ip |-> "*", port |-> "8080", host |-> "example.org",
    enable |-> FALSE, thumbprint |-> "", cert_var |-> "",
    require_sni |-> FALSE]}

BindingLists ==
  UNION {[1..n -> BindingValues] : n \in 0..MaxBindings}

TargetRoleLists == {<<>>, <<"web">>, <<"web", "app">>}

\* a resource whose schema has run_on_server and optional target_roles
\* (resourceDeploymentStep_AddDefaultSchema with target_roles_required false)
BasicConfigs ==
  [resource : {"basic"},
   step_name : StepNames,
   step_condition : {"success", "always"},
   required : BOOLEAN,
   step_start_trigger : {"StartAfterPrevious", "StartWithPrevious"},
   target_roles : TargetRoleLists,
   run_on_server : BOOLEAN]

\* the IIS website resource: target_roles is required, there is no
\* run_on_server (d.GetOk reports it as not set)
IisWebsiteConfigs ==
  [resource : {"iis_website"},
   step_name : StepNames,
   step_condition : {"success"},
   required : {FALSE},
   step_start_trigger : {"StartAfterPrevious"},
   target_roles : {<<"web">>},
   run_on_server : {FALSE},
   feed_id : {"feeds-builtin"},
   package : {"site"},
   configuration_transforms : BOOLEAN,
   configuration_variables : BOOLEAN,
   json_file_variable_replacement : {"", "appsettings.json"},
   variable_substitution_in_files : {<<>>, <<"web.config", "app.config">>},
   pre_deploy_script : ScriptBlocks,
   deploy_script : ScriptBlocks,
   post_deploy_script : ScriptBlocks,
   application_pool : ApplicationPools,
   website_name : {"Default Web Site"},
   deployment_type : {""},
   path_type : {""},
   relative_path : {"", "wwwroot"},
   start_web_site : {TRUE},
   anonymous_authentication : {FALSE},
   basic_authentication : {FALSE},
   windows_authentication : {TRUE},
   binding : BindingLists]

(***************************************************************************)
(* The builders.  rd is the schema.ResourceData; d.GetOk reports a field   *)
(* as set when its value is not the zero value of its type.                *)
(***************************************************************************)
EnabledFeaturesKey == "Octopus.Action.EnabledFeatures"
RunOnServerKey == "Octopus.Action.RunOnServer"
TargetRolesKey == "Octopus.Action.TargetRoles"
BindingsKey == "Octopus.Action.IISWebSite.Bindings"

\* deploymentStep.Actions[0].Properties[key] = value
SetActionProperty(deploymentStep, key, value) ==
  [deploymentStep EXCEPT !.Actions[1].Properties = Put(@, key, value)]

\* deploymentStep.Actions[0].Properties["Octopus.Action.EnabledFeatures"] += "," + name
AddEnabledFeature(deploymentStep, name) ==
  SetActionProperty(deploymentStep, EnabledFeaturesKey,
    AppendFeature(Lookup(deploymentStep.Actions[1].Properties,
                         EnabledFeaturesKey, <<>>), name))

\* part_000 lines 525-561
resourceDeploymentStep_CreateBasicStep(rd, actionType) ==
  LET s0 == [Name |-> rd.step_name,
             PackageRequirement |-> "LetOctopusDecide",
             Condition |-> rd.step_condition,
             StartTrigger |-> rd.step_start_trigger,
             Properties |-> <<>>,
             Actions |-> <<[Name |-> rd.step_name,
                            IsRequired |-> rd.required,
                            ActionType |-> actionType,
                            Properties |-> <<>>]>>]
      s1 == IF rd.run_on_server
            THEN SetActionProperty(s0, RunOnServerKey,
                                   strconvFormatBool(rd.run_on_server))
            ELSE s0
  IN  IF rd.target_roles # <<>>
      THEN [s1 EXCEPT !.Properties =
              Put(@, TargetRolesKey, stringsJoin(rd.target_roles, ","))]
      ELSE s1

\* part_000 lines 567-580: the field and the script name of a phase
ScriptProp(scriptType) ==
  CASE scriptType = "pre" -> "pre_deploy_script"
    [] scriptType = "deploy" -> "deploy_script"
    [] scriptType = "post" -> "post_deploy_script"

ScriptName(scriptType) ==
  CASE scriptType = "pre" -> "PreDeploy"
    [] scriptType = "deploy" -> "Deploy"
    [] scriptType = "post" -> "PostDeploy"

\* part_000 lines 592-605: the file extension of a script type
ScriptExtension(type) ==
  CASE type = "PowerShell" -> ".ps1"
    [] type = "CSharp" -> ".csx"
    [] type = "Bash" -> ".sh"
    [] type = "FSharp" -> ".fsx"
    [] OTHER -> ""

\* variant: the feature is added for every script, without the
\* strings.Contains test
resourceDeploymentStep_AddPackageProperties_DeployScript_AlwaysAdds(rd, deploymentStep, scriptType) ==
  LET rawScript == rd[ScriptProp(scriptType)]
  IN  IF rawScript = <<>> THEN deploymentStep
      ELSE LET script == rawScript[1]
               scriptName == ScriptName(scriptType) \o ScriptExtension(script.type)
           IN  AddEnabledFeature(
                 SetActionProperty(deploymentStep,
                   "Octopus.Action.CustomScripts." \o scriptName, script.body),
                 "Octopus.Features.CustomScripts")

\* part_000 lines 563-614
resourceDeploymentStep_AddPackageProperties_DeployScript(rd, deploymentStep, scriptType) ==
  LET rawScript == rd[ScriptProp(scriptType)]
  IN  IF rawScript = <<>> THEN deploymentStep
      ELSE LET script == rawScript[1]
               scriptName == ScriptName(scriptType) \o ScriptExtension(script.type)
               s1 == SetActionProperty(deploymentStep,
                       "Octopus.Action.CustomScripts." \o scriptName,
                       script.body)
           IN  IF ~stringsContains(Lookup(s1.Actions[1].Properties,
                                          EnabledFeaturesKey, <<>>),
                                   "Octopus.Features.CustomScripts")
               THEN AddEnabledFeature(s1, "Octopus.Features.CustomScripts")
               ELSE s1

\* part_000 lines 616-650
resourceDeploymentStep_AddPackageProperties(rd, deploymentStep) ==
  LET s1 == SetActionProperty(
              SetActionProperty(
                SetActionProperty(deploymentStep,
                  "Octopus.Action.Package.DownloadOnTentacle", "False"),
                "Octopus.Action.Package.FeedId", rd.feed_id),
              "Octopus.Action.Package.PackageId", rd.package)
      s2 == IF rd.json_file_variable_replacement # ""
            THEN AddEnabledFeature(
                   SetActionProperty(
                     SetActionProperty(s1,
                       "Octopus.Action.Package.JsonConfigurationVariablesTargets",
                       rd.json_file_variable_replacement),
                     "Octopus.Action.Package.JsonConfigurationVariablesEnabled",
                     "True"),
                   "Octopus.Features.JsonConfigurationVariables")
            ELSE s1
      s3 == IF rd.variable_substitution_in_files # <<>>
            THEN AddEnabledFeature(
                   SetActionProperty(
                     SetActionProperty(s2,
                       "Octopus.Action.SubstituteInFiles.TargetFiles",
                       stringsJoin(rd.variable_substitution_in_files, "\n")),
                     "Octopus.Action.SubstituteInFiles.Enabled", "True"),
                   "Octopus.Features.SubstituteInFiles")
            ELSE s2
      s4 == IF rd.configuration_transforms
            THEN AddEnabledFeature(
                   SetActionProperty(s3,
                     "Octopus.Action.Package.AutomaticallyRunConfigurationTransformationFiles",
                     formatBool(rd.configuration_transforms)),
                   "Octopus.Features.ConfigurationTransforms")
            ELSE s3
      s5 == IF rd.configuration_variables
            THEN AddEnabledFeature(
                   SetActionProperty(s4,
                     "Octopus.Action.Package.AutomaticallyUpdateAppSettingsAndConnectionStrings",
                     formatBool(rd.configuration_variables)),
                   "Octopus.Features.ConfigurationVariables")
            ELSE s4
  IN  resourceDeploymentStep_AddPackageProperties_DeployScript(rd,
        resourceDeploymentStep_AddPackageProperties_DeployScript(rd,
          resourceDeploymentStep_AddPackageProperties_DeployScript(rd, s5,
            "pre"),
          "deploy"),
        "post")

\* part_000 lines 653-658 and 778-783
PropPrefix(iisType) ==
  IF iisType = "IISWebSite" THEN "Octopus.Action.IISWebSite"
  ELSE "Octopus.Action.IISWebSite." \o iisType

\* part_000 lines 652-682
resourceDeploymentStep_AddIisAppPoolProperties(rd, deploymentStep, iisType) ==
  LET propPrefix == PropPrefix(iisType)
  IN  IF rd.application_pool = <<>> THEN deploymentStep
      ELSE LET appPool == rd.application_pool[1]
               s1 == SetActionProperty(deploymentStep,
                       propPrefix \o ".ApplicationPoolName", appPool.name)
               s2 == SetActionProperty(s1,
                       propPrefix \o ".ApplicationPoolFrameworkVersion",
                       appPool.framework)
               s3 == SetActionProperty(s2,
                       propPrefix \o ".ApplicationPoolIdentityType",
                       appPool.identity)
               s4 == SetActionProperty(s3,
                       propPrefix \o ".ApplicationPoolUsername",
                       appPool.username)
               s5 == SetActionProperty(s4,
                       propPrefix \o ".ApplicationPoolPassword",
                       appPool.password)
           IN  SetActionProperty(s5,
                 "Octopus.Action.IISWebSite.StartApplicationPool",
                 formatBool(appPool.start))

\* encoding/json on a string without characters to escape, and on a bool
jsonString(str) == "\"" \o str \o "\""
jsonBool(b) == IF b THEN "true" ELSE "false"

\* json.Marshal of one bindingsStruct (iis_website lines 171-180)
jsonMarshalBinding(b) ==
  "{\"protocol\":" \o jsonString(b.Protocol) \o
  ",\"ipAddress\":" \o jsonString(b.IpAddress) \o
  ",\"port\":" \o jsonString(b.Port) \o
  ",\"host\":" \o jsonString(b.Host) \o
  ",\"thumbprint\":" \o jsonString(b.Thumbprint) \o
  ",\"certificateVariable\":" \o jsonString(b.CertificateVariable) \o
  ",\"requireSni\":" \o jsonBool(b.RequireSni) \o
  ",\"enabled\":" \o jsonBool(b.Enabled) \o "}"

RECURSIVE jsonMarshalElements(_)
jsonMarshalElements(array) ==
  IF array = <<>> THEN ""
  ELSE IF Len(array) = 1 THEN jsonMarshalBinding(array[1])
  ELSE jsonMarshalBinding(array[1]) \o "," \o jsonMarshalElements(Tail(array))

\* json.Marshal of the []bindingsStruct
jsonMarshal(array) == "[" \o jsonMarshalElements(array) \o "]"

\* iis_website lines 182-216: the configured bindings, or the default one
BindingsArray(rd) ==
  IF rd.binding # <<>>
  THEN [i \in 1..Len(rd.binding) |->
          [Protocol |-> rd.binding[i].protocol,
           IpAddress |-> rd.binding[i].ip,
           Port |-> rd.binding[i].port,
           Host |-> rd.binding[i].host,
           Thumbprint |-> rd.binding[i].thumbprint,
           CertificateVariable |-> rd.binding[i].cert_var,
           RequireSni |-> rd.binding[i].require_sni,
           Enabled |-> rd.binding[i].enable]]
  ELSE <<[Protocol |-> "http", IpAddress |-> "*", Port |-> "80",
          Host |-> "", Thumbprint |-> "", CertificateVariable |-> "",
          RequireSni |-> FALSE, Enabled |-> TRUE]>>

\* iis_website lines 135-229.  The builder also sets the computed fields
\* deployment_type and path_type of d: the result is the pair of d and the
\* step.
buildIisWebsiteDeploymentStep(rd) ==
  LET rd1 == [rd EXCEPT !.deployment_type = "webSite"]
      s0 == resourceDeploymentStep_CreateBasicStep(rd1, "Octopus.IIS")
      s1 == SetActionProperty(s0, EnabledFeaturesKey,
                              <<"Octopus.Features.IISWebSite">>)
      s2 == resourceDeploymentStep_AddPackageProperties(rd1, s1)
      s3 == resourceDeploymentStep_AddIisAppPoolProperties(rd1, s2,
                                                           "IISWebSite")
      s4 == SetActionProperty(
              SetActionProperty(
                SetActionProperty(
                  SetActionProperty(s3,
                    "Octopus.Action.IISWebSite.DeploymentType",
                    rd1.deployment_type),
                  "Octopus.Action.IISWebSite.CreateOrUpdateWebSite", "True"),
                "Octopus.Action.IISWebSite.WebApplication.CreateOrUpdate",
                "False"),
              "Octopus.Action.IISWebSite.VirtualDirectory.CreateOrUpdate",
              "False")
      rd2 == IF rd1.relative_path # ""
             THEN [rd1 EXCEPT !.path_type = "relativeToPackageRoot"]
             ELSE [rd1 EXCEPT !.path_type = "packageRoot"]
      s5 == IF rd1.relative_path # ""
            THEN SetActionProperty(s4, "Octopus.Action.IISWebSite.PhysicalPath",
                                   rd1.relative_path)
            ELSE s4
      s6 == SetActionProperty(s5, "Octopus.Action.IISWebSite.WebRootType",
                              rd2.path_type)
      s7 == SetActionProperty(s6, "Octopus.Action.IISWebSite.StartWebSite",
                              formatBool(rd2.start_web_site))
      s8 == SetActionProperty(s7, "Octopus.Action.IISWebSite.WebSiteName",
                              rd2.website_name)
      s9 == SetActionProperty(s8,
              "Octopus.Action.IISWebSite.EnableAnonymousAuthentication",
              formatBool(rd2.anonymous_authentication))
      s10 == SetActionProperty(s9,
               "Octopus.Action.IISWebSite.EnableBasicAuthentication",
               formatBool(rd2.basic_authentication))
      s11 == SetActionProperty(s10,
               "Octopus.Action.IISWebSite.EnableWindowsAuthentication",
               formatBool(rd2.windows_authentication))
  IN  [d |-> rd2,
       deploymentStep |->
         SetActionProperty(s11, BindingsKey, jsonMarshal(BindingsArray(rd2)))]

(***************************************************************************)
(* The setters.  st is the set of fields written so far: d.Set(key, value) *)
(* is Put(st, key, value).  A map[string]interface{} whose values are of   *)
(* more than one Go type holds each value with its type.                   *)
(***************************************************************************)
GoString(str) == [string |-> str]
GoBool(b) == [bool |-> b]

\* strings.ToLower on the condition names of Octopus
stringsToLower(str) ==
  CASE str = "Success" -> "success"
    [] str = "Failure" -> "failure"
    [] str = "Always" -> "always"
    [] str = "Variable" -> "variable"
    [] OTHER -> str

\* part_000 lines 687-702
resourceDeploymentStep_SetBasicSchema(st, deploymentStep) ==
  LET st1 == Put(Put(Put(Put(st,
               "step_name", deploymentStep.Name),
               "step_condition", stringsToLower(deploymentStep.Condition)),
               "required", deploymentStep.Actions[1].IsRequired),
               "step_start_trigger", deploymentStep.StartTrigger)
      st2 == IF /\ Has(deploymentStep.Properties, TargetRolesKey)
                /\ deploymentStep.Properties[TargetRolesKey] # <<>>
             THEN Put(st1, "target_roles",
                      stringsSplit(deploymentStep.Properties[TargetRolesKey],
                                   ","))
             ELSE st1
  IN  IF Has(deploymentStep.Properties, RunOnServerKey)
      THEN Put(st2, "run_on_server", deploymentStep.Properties[RunOnServerKey])
      ELSE st2

\* part_000 lines 726-738: the script type the setter reads off the key
ScriptOfProperties(properties, scriptNameStart) ==
  LET key(ext) == "Octopus.Action.CustomScripts." \o scriptNameStart \o ext
  IN  IF Has(properties, key(".ps1"))
      THEN Put(Put(<<>>, "type", "PowerShell"), "body", properties[key(".ps1")])
      ELSE IF Has(properties, key(".sh"))
      THEN Put(Put(<<>>, "type", "CSharp"), "body", properties[key(".sh")])
      ELSE IF Has(properties, key(".csx"))
      THEN Put(Put(<<>>, "type", "Bash"), "body", properties[key(".csx")])
      ELSE IF Has(properties, key(".fsx"))
      THEN Put(Put(<<>>, "type", "FSharp"), "body", properties[key(".fsx")])
      ELSE <<>>

\* part_000 lines 704-744
resourceDeploymentStep_SetPackageSchema_DeployScript(st, deploymentStep, scriptType) ==
  LET script == ScriptOfProperties(deploymentStep.Actions[1].Properties,
                                   ScriptName(scriptType))
  IN  IF Has(script, "type")
      THEN Put(st, ScriptProp(scriptType), <<script>>)
      ELSE st

\* d.Set(field, value) when strconv.ParseBool reads the property as a bool
SetParsedBool(st, properties, key, field) ==
  IF Has(properties, key) /\ ~strconvParseBool(properties[key]).err
  THEN Put(st, field, strconvParseBool(properties[key]).value)
  ELSE st

\* d.Set(field, value) when the property is there
SetIfPresent(st, properties, key, field) ==
  IF Has(properties, key) THEN Put(st, field, properties[key]) ELSE st

\* part_000 lines 746-775
resourceDeploymentStep_SetPackageSchema(st, deploymentStep) ==
  LET properties == deploymentStep.Actions[1].Properties
      st1 == Put(Put(st,
               "feed_id", Lookup(properties, "Octopus.Action.Package.FeedId", "")),
               "package", Lookup(properties, "Octopus.Action.Package.PackageId", ""))
      st2 == SetIfPresent(st1, properties,
               "Octopus.Action.Package.JsonConfigurationVariablesTargets",
               "json_file_variable_replacement")
      st3 == IF /\ Has(properties, "Octopus.Action.SubstituteInFiles.TargetFiles")
                /\ properties["Octopus.Action.SubstituteInFiles.TargetFiles"] # <<>>
             THEN Put(st2, "variable_substitution_in_files",
                      stringsSplit(
                        properties["Octopus.Action.SubstituteInFiles.TargetFiles"],
                        "\n"))
             ELSE st2
      st4 == SetParsedBool(st3, properties,
               "Octopus.Action.Package.AutomaticallyRunConfigurationTransformationFiles",
               "configuration_transforms")
      st5 == SetParsedBool(st4, properties,
               "Octopus.Action.Package.AutomaticallyUpdateAppSettingsAndConnectionStrings",
               "configuration_variables")
  IN  resourceDeploymentStep_SetPackageSchema_DeployScript(
        resourceDeploymentStep_SetPackageSchema_DeployScript(
          resourceDeploymentStep_SetPackageSchema_DeployScript(st5,
            deploymentStep, "pre"),
          deploymentStep, "deploy"),
        deploymentStep, "post")

\* appPool[field] = the property, as a string, when the property is there
AppPoolField(appPool, properties, key, field) ==
  IF Has(properties, key) THEN Put(appPool, field, GoString(properties[key]))
  ELSE appPool

\* part_000 lines 777-814
resourceDeploymentStep_SetIisAppPoolSchema(st, deploymentStep, iisType) ==
  LET propPrefix == PropPrefix(iisType)
      properties == deploymentStep.Actions[1].Properties
      a1 == AppPoolField(<<>>, properties,
              propPrefix \o ".ApplicationPoolName", "name")
      a2 == AppPoolField(a1, properties,
              propPrefix \o ".ApplicationPoolFrameworkVersion", "framework")
      a3 == AppPoolField(a2, properties,
              propPrefix \o ".ApplicationPoolIdentityType", "identity")
      a4 == AppPoolField(a3, properties,
              propPrefix \o ".ApplicationPoolUsername", "username")
      a5 == AppPoolField(a4, properties,
              propPrefix \o ".ApplicationPoolPassword", "password")
      startKey == "Octopus.Action.IISWebSite.StartApplicationPool"
      a6 == IF Has(properties, startKey)
               /\ ~strconvParseBool(properties[startKey]).err
            THEN Put(a5, "password",
                     GoBool(strconvParseBool(properties[startKey]).value))
            ELSE a5
  IN  Put(st, "application_pool", <<a6>>)

\* iis_website lines 231-277
setIisWebsiteSchema(st, deploymentStep) ==
  LET properties == deploymentStep.Actions[1].Properties
      st1 == resourceDeploymentStep_SetIisAppPoolSchema(
               resourceDeploymentStep_SetPackageSchema(
                 resourceDeploymentStep_SetBasicSchema(st, deploymentStep),
                 deploymentStep),
               deploymentStep, "IISWebSite")
      st2 == Put(st1, "deployment_type",
                 Lookup(properties, "Octopus.Action.IISWebSite.DeploymentType", ""))
      st3 == SetIfPresent(st2, properties,
               "Octopus.Action.IISWebSite.WebRootType", "path_type")
      st4 == SetIfPresent(st3, properties,
               "Octopus.Action.IISWebSite.PhysicalPath", "relative_path")
      st5 == SetParsedBool(st4, properties,
               "Octopus.Action.IISWebSite.StartWebSite", "start_web_site")
      st6 == SetIfPresent(st5, properties,
               "Octopus.Action.IISWebSite.WebSiteName", "website_name")
      st7 == SetParsedBool(st6, properties,
               "Octopus.Action.IISWebSite.EnableAnonymousAuthentication",
               "anonymous_authentication")
      st8 == SetParsedBool(st7, properties,
               "Octopus.Action.IISWebSite.EnableBasicAuthentication",
               "basic_authentication")
  IN  SetParsedBool(st8, properties,
        "Octopus.Action.IISWebSite.EnableWindowsAuthentication",
        "windows_authentication")

(***************************************************************************)
(* Round trips: a configuration is drawn, the builder makes the step of    *)
(* it, the setter is applied to that step on a ResourceData without any    *)
(* field set.  No handler runs meanwhile.                                  *)
(***************************************************************************)
handlers == <<server, opsLeft, pc, kind, d, locals, ret, calls, lastWrite>>

InitRoundTrip ==
  /\ InitOn({}, 0)
  /\ serverSteps = <<>>
  /\ rtStage = "configured"
  /\ rtConfig \in BasicConfigs \cup IisWebsiteConfigs
  /\ rtStep = <<>>
  /\ rtState = <<>>

\* a builder that is resourceDeploymentStep_CreateBasicStep alone
BasicStepBuild ==
  /\ rtStage = "configured"
  /\ rtConfig.resource = "basic"
  /\ rtStep' = resourceDeploymentStep_CreateBasicStep(rtConfig, "Octopus.Script")
  /\ rtStage' = "built"
  /\ UNCHANGED <<handlers, rtConfig, rtState>>

\* a setter that is resourceDeploymentStep_SetBasicSchema alone
BasicStepRead ==
  /\ rtStage = "built"
  /\ rtConfig.resource = "basic"
  /\ rtState' = resourceDeploymentStep_SetBasicSchema(<<>>, rtStep)
  /\ rtStage' = "read"
  /\ UNCHANGED <<handlers, rtConfig, rtStep>>

\* buildIisWebsiteDeploymentStep(d)
IisWebsiteBuild ==
  /\ rtStage = "configured"
  /\ rtConfig.resource = "iis_website"
  /\ LET built == buildIisWebsiteDeploymentStep(rtConfig)
     IN  /\ rtConfig' = built.d
         /\ rtStep' = built.deploymentStep
  /\ rtStage' = "built"
  /\ UNCHANGED <<handlers, rtState>>

\* setIisWebsiteSchema(d, deploymentStep)
IisWebsiteRead ==
  /\ rtStage = "built"
  /\ rtConfig.resource = "iis_website"
  /\ rtState' = setIisWebsiteSchema(<<>>, rtStep)
  /\ rtStage' = "read"
  /\ UNCHANGED <<handlers, rtConfig, rtStep>>

NextRoundTrip ==
  \/ BasicStepBuild
  \/ BasicStepRead
  \/ IisWebsiteBuild
  \/ IisWebsiteRead

SpecRoundTrip == InitRoundTrip /\ [][NextRoundTrip]_vars

(***************************************************************************)
(* C13: for each phase, each script type and each body, the setter applied *)
(* to the step the builder made yields a script block with the configured  *)
(* type and the configured body.  The code does not do this: the setter    *)
(* reads ".sh" as CSharp and ".csx" as Bash.                               *)
(***************************************************************************)
Phases == {"pre", "deploy", "post"}

\* the round trip of an IIS website has got to the end
IisWebsiteReadBack == rtStage = "read" /\ rtConfig.resource = "iis_website"

\* the script block the setter wrote for the phase is the configured one
ScriptRestored(phase) ==
  /\ Has(rtState, ScriptProp(phase))
  /\ Len(rtState[ScriptProp(phase)]) = 1
  /\ rtState[ScriptProp(phase)][1]["type"] = rtConfig[ScriptProp(phase)][1].type
  /\ rtState[ScriptProp(phase)][1]["body"] = rtConfig[ScriptProp(phase)][1].body

C13_ScriptRoundTrip ==
  IisWebsiteReadBack =>
    \A phase \in Phases :
      rtConfig[ScriptProp(phase)] # <<>> => ScriptRestored(phase)

\* a C# deploy script has been built and read back
C13_Witness ==
  /\ IisWebsiteReadBack
  /\ rtConfig.deploy_script # <<>>
  /\ rtConfig.deploy_script[1].type = "CSharp"
  /\ Has(rtState, "deploy_script")

(***************************************************************************)
(* C14: the setter applied to the step the builder made yields an          *)
(* application_pool block in which name, framework, identity, username     *)
(* and password are the configured strings and start is the configured     *)
(* boolean.  The code does not do this: the setter stores the parsed       *)
(* start flag under "password" and never sets "start".                     *)
(***************************************************************************)
AppPoolStrings == {"name", "framework", "identity", "username", "password"}

C14_ApplicationPoolRoundTrip ==
  IisWebsiteReadBack =>
    /\ Has(rtState, "application_pool")
    /\ Len(rtState["application_pool"]) = 1
    /\ LET appPool == rtState["application_pool"][1]
           configured == rtConfig.application_pool[1]
       IN  /\ \A field \in AppPoolStrings :
                /\ Has(appPool, field)
                /\ appPool[field] = GoString(configured[field])
           /\ Has(appPool, "start")
           /\ appPool["start"] = GoBool(configured.start)

\* an application pool with a password has been built and read back
C14_Witness ==
  /\ IisWebsiteReadBack
  /\ rtConfig.application_pool[1].password = "secret"
  /\ Has(rtState, "application_pool")
  /\ Has(rtState["application_pool"][1], "password")

(***************************************************************************)
(* C15: for every configured list of bindings, setIisWebsiteSchema applied *)
(* to the step made by buildIisWebsiteDeploymentStep sets the field        *)
(* binding to that list.  The code does not do this: the setter never      *)
(* reads the Bindings property and never sets binding.                     *)
(***************************************************************************)
C15_BindingRoundTrip ==
  IisWebsiteReadBack /\ rtConfig.binding # <<>> =>
    /\ Has(rtState, "binding")
    /\ rtState["binding"] = rtConfig.binding

\* a configured binding has been marshalled into the step and the step has
\* been read back
C15_Witness ==
  /\ IisWebsiteReadBack
  /\ rtConfig.binding # <<>>
  /\ rtStep.Actions[1].Properties[BindingsKey] =
       jsonMarshal(BindingsArray(rtConfig))
  /\ rtStep.Actions[1].Properties[BindingsKey] # "[]"

(***************************************************************************)
(* C20: for a step built by resourceDeploymentStep_CreateBasicStep with    *)
(* run_on_server true, resourceDeploymentStep_SetBasicSchema sets          *)
(* run_on_server back to true.  The code does not do this: the builder     *)
(* writes the property into the action's bag, the setter looks for it in   *)
(* the step's bag.                                                         *)
(***************************************************************************)
BasicStepReadBack == rtStage = "read" /\ rtConfig.resource = "basic"

C20_RunOnServerRoundTrip ==
  BasicStepReadBack /\ rtConfig.run_on_server =>
    /\ Has(rtState, "run_on_server")
    /\ ~strconvParseBool(rtState["run_on_server"]).err
    /\ strconvParseBool(rtState["run_on_server"]).value

\* a step with run_on_server true has been built, the property is in the
\* action's bag, and the step has been read back
C20_Witness ==
  /\ BasicStepReadBack
  /\ rtConfig.run_on_server
  /\ Has(rtStep.Actions[1].Properties, RunOnServerKey)
  /\ rtStep.Actions[1].Properties[RunOnServerKey] = "true"

(***************************************************************************)
(* C16 (first_step revision): with first_step true, create and update      *)
(* write a list whose first step is the new or rebuilt step, whatever the  *)
(* fetched list and after_step_id; with first_step false the step follows  *)
(* the step that matches after_step_id, else it is appended at the end.    *)
(* As stated the second half does not hold for an update whose             *)
(* after_step_id is the resource's own ID.                                 *)
(***************************************************************************)
Written(p) == Sent(p, "create") \/ Sent(p, "update")

\* the fetched steps other than the resource's own (all of them in create)
Others(p) ==
  IF kind[p] = "update" THEN WithoutId(orgDeploymentSteps[p], stepId[p])
  ELSE orgDeploymentSteps[p]

\* the step behind the step that matches after_step_id, else at the end
AfterElseAppend(p) ==
  LET j == IndexOf(Others(p), afterStepId[p])
  IN  IF j > 0 THEN InsertAt(Others(p), j + 1, NewStep(p))
      ELSE Append(Others(p), NewStep(p))

C16_FirstElseAfterElseAppend ==
  \A p \in DOMAIN pc :
    Written(p) =>
      IF firstStep[p]
      THEN deploymentProcess[p][1] = NewStep(p)
      ELSE deploymentProcess[p] = AfterElseAppend(p)

\* an update that names its own step, present in the fetched list, as
\* after_step_id
AfterSelf(p) ==
  /\ kind[p] = "update"
  /\ afterStepId[p] = stepId[p]
  /\ IndexOf(orgDeploymentSteps[p], stepId[p]) > 0

(***************************************************************************)
(* C16 (as the code has it): with first_step true the written list is the  *)
(* new or rebuilt step followed by the other fetched steps; with           *)
(* first_step false the step follows the step that matches after_step_id,  *)
(* else it is appended, except that an update whose after_step_id is the   *)
(* resource's own ID leaves the rebuilt step where the old one was.        *)
(***************************************************************************)
C16_FirstElseAfterElseAppendOrInPlace ==
  \A p \in DOMAIN pc :
    Written(p) /\ DistinctIds(orgDeploymentSteps[p]) =>
      IF firstStep[p]
      THEN deploymentProcess[p] = <<NewStep(p)>> \o Others(p)
      ELSE IF AfterSelf(p)
      THEN deploymentProcess[p] =
             [orgDeploymentSteps[p] EXCEPT
                ![IndexOf(orgDeploymentSteps[p], stepId[p])] = NewStep(p)]
      ELSE deploymentProcess[p] = AfterElseAppend(p)

\* an update with first_step true has moved its step from further down to
\* the front, although after_step_id matches another step
C16_Witness ==
  \E p \in DOMAIN pc :
    /\ Sent(p, "update")
    /\ firstStep[p]
    /\ IndexOf(orgDeploymentSteps[p], stepId[p]) > 1
    /\ afterStepId[p] \in Ids(Others(p))
    /\ deploymentProcess[p][1] = NewStep(p)

(***************************************************************************)
(* C17: the list written by create is one longer than the fetched list,    *)
(* holds every fetched step unmodified and in the fetched order, and holds *)
(* the new step exactly once, also when before_step_id and after_step_id   *)
(* both match, or match the same step.                                     *)
(***************************************************************************)
\* how many steps of the list are the given step
Count(steps, step) == Cardinality({i \in 1..Len(steps) : steps[i] = step})

\* how many steps of the list carry the ID
CountId(steps, id) == Cardinality({i \in 1..Len(steps) : steps[i].ID = id})

C17_CreateFrame ==
  \A p \in DOMAIN pc :
    Sent(p, "create") =>
      /\ Len(deploymentProcess[p]) = Len(orgDeploymentSteps[p]) + 1
      /\ WithoutId(deploymentProcess[p], NoId) = orgDeploymentSteps[p]
      /\ Count(deploymentProcess[p], NewStep(p)) = 1
      /\ CountId(deploymentProcess[p], NoId) = 1

\* a create whose before_step_id and after_step_id name the same fetched
\* step has written its list
C17_Witness ==
  \E p \in DOMAIN pc :
    /\ Sent(p, "create")
    /\ beforeStepId[p] = afterStepId[p]
    /\ beforeStepId[p] \in Ids(orgDeploymentSteps[p])
    /\ Len(orgDeploymentSteps[p]) >= 2

(***************************************************************************)
(* C18: when the fetched list holds the resource's step exactly once, the  *)
(* list written by update has the length of the fetched list, holds every  *)
(* other step unmodified and in the fetched order, and holds exactly one   *)
(* step with the resource's ID, the rebuilt step.                          *)
(***************************************************************************)
C18_UpdateFrame ==
  \A p \in DOMAIN pc :
    Sent(p, "update") /\ CountId(orgDeploymentSteps[p], stepId[p]) = 1 =>
      /\ Len(deploymentProcess[p]) = Len(orgDeploymentSteps[p])
      /\ WithoutId(deploymentProcess[p], stepId[p]) =
           WithoutId(orgDeploymentSteps[p], stepId[p])
      /\ CountId(deploymentProcess[p], stepId[p]) = 1
      /\ Count(deploymentProcess[p], NewStep(p)) = 1

\* an update whose before_step_id and after_step_id name two other fetched
\* steps has written its list
C18_Witness ==
  \E p \in DOMAIN pc :
    /\ Sent(p, "update")
    /\ CountId(orgDeploymentSteps[p], stepId[p]) = 1
    /\ beforeStepId[p] \in Ids(orgDeploymentSteps[p]) \ {stepId[p]}
    /\ afterStepId[p] \in Ids(orgDeploymentSteps[p]) \ {stepId[p]}
    /\ beforeStepId[p] # afterStepId[p]

(***************************************************************************)
(* C19: the Octopus.Action.EnabledFeatures value built for a package step  *)
(* names no feature more than once; Octopus.Features.CustomScripts is in   *)
(* it exactly once when one, two or three of the scripts are configured    *)
(* and not at all when none is.                                            *)
(***************************************************************************)
\* the step of an IIS website (a package step) has been built
IisWebsiteBuilt ==
  rtStage \in {"built", "read"} /\ rtConfig.resource = "iis_website"

\* the feature names of the built step
EnabledFeatures ==
  stringsSplit(rtStep.Actions[1].Properties[EnabledFeaturesKey], ",")

ScriptsConfigured ==
  Cardinality({phase \in Phases : rtConfig[ScriptProp(phase)] # <<>>})

C19_EnabledFeaturesOnce ==
  IisWebsiteBuilt =>
    /\ \A i, j \in 1..Len(EnabledFeatures) :
         EnabledFeatures[i] = EnabledFeatures[j] => i = j
    /\ Count(EnabledFeatures, "Octopus.Features.CustomScripts") =
         IF ScriptsConfigured >= 1 THEN 1 ELSE 0

\* a step with all three scripts and the four other package features has
\* been built: six features with that of the IIS website
C19_Witness ==
  /\ IisWebsiteBuilt
  /\ ScriptsConfigured = 3
  /\ rtConfig.configuration_transforms
  /\ rtConfig.configuration_variables
  /\ rtConfig.json_file_variable_replacement # ""
  /\ rtConfig.variable_substitution_in_files # <<>>
  /\ Len(EnabledFeatures) = 6

(***************************************************************************)
(* C21.  Create followed by delete of the created step is the identity on  *)
(* the server's step list: when a delete of resource p has been sent and   *)
(* has succeeded, p's last write before it was its create, and the delete  *)
(* fetched the list that create had stored (no other writer in between),   *)
(* the server holds the list the create had fetched.                       *)
(***************************************************************************)
\* the handler of p has written and returned nil
Succeeded(p, k) == pc[p] = "done" /\ Sent(p, k) /\ ret[p] = "nil"

\* p's handler works on the list that p's last write, of kind k, stored
Follows(p, k) ==
  /\ lastWrite[p].kind = k
  /\ orgDeploymentSteps[p] = lastWrite[p].stored

C21_CreateThenDeleteIsIdentity ==
  \A p \in DOMAIN pc :
    Succeeded(p, "delete") /\ Follows(p, "create")
      /\ DistinctIds(lastWrite[p].fetched) =>
        serverSteps = lastWrite[p].fetched

\* a create put the step before the second of three steps and the delete of
\* that step has succeeded
C21_Witness ==
  \E p \in DOMAIN pc :
    /\ Succeeded(p, "delete") /\ Follows(p, "create")
    /\ Len(lastWrite[p].fetched) = 3
    /\ IndexOf(lastWrite[p].stored, stepId[p]) = 2
    /\ CountId(lastWrite[p].fetched, stepId[p]) = 0

(***************************************************************************)
(* C22.  Update is idempotent on the step list: when an update of resource *)
(* p has been sent and has succeeded, p's last write before it was an      *)
(* update with the same before_step_id, after_step_id and step content,    *)
(* and the second update fetched the list the first had stored (no other   *)
(* writer in between), the server holds the list the first update stored.  *)
(***************************************************************************)
\* the handler of p runs with the configuration of p's last write
SameConfiguration(p) ==
  /\ beforeStepId[p] = lastWrite[p].beforeStepId
  /\ afterStepId[p] = lastWrite[p].afterStepId
  /\ stepName[p] = lastWrite[p].stepName

C22_UpdateIdempotent ==
  \A p \in DOMAIN pc :
    Succeeded(p, "update") /\ Follows(p, "update") /\ SameConfiguration(p)
      /\ DistinctIds(lastWrite[p].fetched) =>
        serverSteps = lastWrite[p].stored

\* the first update moved the step (to before the first of three steps), the
\* second one, with the same references, has succeeded
C22_Witness ==
  \E p \in DOMAIN pc :
    /\ Succeeded(p, "update") /\ Follows(p, "update") /\ SameConfiguration(p)
    /\ Len(lastWrite[p].fetched) = 3
    /\ IndexOf(lastWrite[p].fetched, stepId[p]) = 3
    /\ IndexOf(lastWrite[p].stored, stepId[p]) = 1
    /\ beforeStepId[p] # NoId
    /\ beforeStepId[p] # stepId[p]

(***************************************************************************)
(* C23.  Step-ID uniqueness is preserved: no step of a handler (the server *)
(* giving a fresh ID to each step written without one) leads from a state  *)
(* where the IDs of the server's list are pairwise distinct and the ID of  *)
(* each live resource occurs exactly once in it to a state where that is   *)
(* no longer so.  The initial lists have pairwise distinct IDs.            *)
(***************************************************************************)
\* the IDs of the list are pairwise distinct and each resource that has an
\* ID has exactly one step in the list
UniqueAndLive(steps, rd) ==
  /\ DistinctIds(steps)
  /\ \A p \in DOMAIN rd : rd[p].Id # NoId => CountId(steps, rd[p].Id) = 1

C23_StepIdUniquenessPreserved ==
  [][UniqueAndLive(serverSteps, d) => UniqueAndLive(serverSteps', d')]_vars

\* the resource was created into a list of two steps or more, and an update
\* of it has succeeded: its ID occurs once among pairwise distinct IDs
C23_Witness ==
  \E p \in DOMAIN pc :
    /\ Succeeded(p, "update") /\ Follows(p, "create")
    /\ Len(lastWrite[p].fetched) >= 2
    /\ Len(serverSteps) = Len(lastWrite[p].fetched) + 1
    /\ UniqueAndLive(serverSteps, d)

(***************************************************************************)
(* C24.  Update of a step that is missing from the fetched list: when the  *)
(* Get succeeded and no fetched step has the resource's ID, the list sent  *)
(* is one longer than the fetched list and is the fetched list with the    *)
(* rebuilt step, under the resource's ID, placed as create places a new    *)
(* step (first matching reference in list order, else at the end); when    *)
(* the Update succeeds the server holds that list, the handler returns nil *)
(* and the resource keeps its ID.                                          *)
(***************************************************************************)
\* the update of p has sent its list and the fetched list had no step of p
UpdatedMissing(p) ==
  Sent(p, "update") /\ CountId(orgDeploymentSteps[p], stepId[p]) = 0

C24_UpdateOfMissingStep ==
  \A p \in DOMAIN pc :
    UpdatedMissing(p) =>
      /\ Len(deploymentProcess[p]) = Len(orgDeploymentSteps[p]) + 1
      /\ CountId(deploymentProcess[p], stepId[p]) = 1
      /\ deploymentProcess[p] =
           FirstMatchElseAppend(orgDeploymentSteps[p], NewStep(p),
                                beforeStepId[p], afterStepId[p])
      /\ pc[p] = "done" /\ updateErr[p] = "nil" =>
           /\ ret[p] = "nil"
           /\ d[p].Id = stepId[p]
           /\ serverSteps = deploymentProcess[p]

\* the step is missing from a list of two, the update has succeeded and has
\* put the step before the second of them
C24_Witness ==
  \E p \in DOMAIN pc :
    /\ UpdatedMissing(p) /\ Succeeded(p, "update")
    /\ Len(orgDeploymentSteps[p]) = 2
    /\ IndexOf(serverSteps, stepId[p]) = 2
    /\ d[p].Id = stepId[p]

(***************************************************************************)
(* C25.  Missing deployment process: when DeploymentProcess.Get answers    *)
(* ErrItemNotFound in read, update or delete, the handler returns at once: *)
(* the resource ID is cleared (the empty string), the returned error is    *)
(* nil, no DeploymentProcess.Update has been issued and the server's list  *)
(* has not been written.                                                   *)
(***************************************************************************)
C25_ProcessGoneClearsId ==
  \A p \in DOMAIN pc :
    GoneOnGet(p) =>
      /\ pc[p] = "done"
      /\ d[p].Id = NoId
      /\ ret[p] = "nil"
      /\ gets[p] = 1
      /\ updates[p] = 0
      /\ setSchemaCalls[p] = <<>>

\* the three handlers in which the Get can answer ErrItemNotFound for a
\* resource that had an ID
C25_WitnessRead ==
  \E p \in DOMAIN pc :
    GoneOnGet(p) /\ kind[p] = "read" /\ stepId[p] # NoId /\ d[p].Id = NoId

C25_WitnessUpdate ==
  \E p \in DOMAIN pc :
    GoneOnGet(p) /\ kind[p] = "update" /\ stepId[p] # NoId /\ d[p].Id = NoId

C25_Witness ==
  \E p \in DOMAIN pc :
    GoneOnGet(p) /\ kind[p] = "delete" /\ stepId[p] # NoId /\ d[p].Id = NoId

(***************************************************************************)
(* C26.  State unchanged on failure: when a client call of create, update  *)
(* or delete fails with an error other than ErrItemNotFound, the handler   *)
(* has returned an error, the failed call is the last one it issued, and   *)
(* the resource ID is what it was when the handler started (unset in       *)
(* create, not cleared in delete); a failed Update leaves the server's     *)
(* list as fetched.                                                        *)
(***************************************************************************)
\* a client call of p's create, update or delete failed, not with
\* ErrItemNotFound
OtherFailure(p) ==
  /\ kind[p] \in {"create", "update", "delete"}
  /\ OtherError \in {projectErr[p], getErr[p], updateErr[p]}

C26_StateUnchangedOnFailure ==
  \A p \in DOMAIN pc :
    OtherFailure(p) =>
      /\ pc[p] = "done"
      /\ ret[p] = "error"
      /\ d[p].Id = stepId[p]
      /\ kind[p] = "create" => d[p].Id = NoId
      /\ projectErr[p] = OtherError => gets[p] = 0 /\ updates[p] = 0
      /\ getErr[p] = OtherError => gets[p] = 1 /\ updates[p] = 0
      /\ updateErr[p] = OtherError =>
           /\ updates[p] = 1
           /\ writes = fetchedAt[p]
           /\ serverSteps = orgDeploymentSteps[p]

\* the Update of a delete failed: the resource still has its ID and its step
C26_Witness ==
  \E p \in DOMAIN pc :
    /\ OtherFailure(p) /\ kind[p] = "delete" /\ updateErr[p] = OtherError
    /\ d[p].Id # NoId
    /\ CountId(serverSteps, d[p].Id) = 1

\* the Get of a create failed: no Update, the resource has no ID
C26_WitnessCreate ==
  \E p \in DOMAIN pc :
    /\ OtherFailure(p) /\ kind[p] = "create" /\ getErr[p] = OtherError
    /\ projectErr[p] = "nil"
    /\ d[p].Id = NoId

(***************************************************************************)
(* C27.  Read of a step list: when the Get of a read succeeded, then if no *)
(* step of the fetched list has the resource's ID the resource ID is       *)
(* cleared, the handler returns nil and the schema setter was not called;  *)
(* if a step has it the resource keeps its ID, the handler returns nil and *)
(* the schema setter was called exactly once, with the first step of the   *)
(* list that has the ID, whose fields the resource data then shows.        *)
(***************************************************************************)
\* the read of p has fetched the list and returned
HasRead(p) == kind[p] = "read" /\ pc[p] = "done" /\ getErr[p] = "nil"

C27_ReadFindsFirstMatch ==
  \A p \in DOMAIN pc :
    HasRead(p) =>
      LET steps == orgDeploymentSteps[p]
          i == IndexOf(steps, stepId[p])
      IN  /\ ret[p] = "nil"
          /\ updates[p] = 0
          /\ i = 0 => d[p].Id = NoId /\ setSchemaCalls[p] = <<>>
          /\ i # 0 =>
               /\ d[p].Id = stepId[p]
               /\ setSchemaCalls[p] = <<steps[i]>>
               /\ d[p].step_name = steps[i].Name

\* the step is the last of three: the setter got it, after an update that
\* renamed it
C27_Witness ==
  \E p \in DOMAIN pc :
    /\ HasRead(p)
    /\ Len(orgDeploymentSteps[p]) = 3
    /\ IndexOf(orgDeploymentSteps[p], stepId[p]) = 3
    /\ setSchemaCalls[p] = <<Step(stepId[p], "built")>>
    /\ d[p].Id = stepId[p]

\* the step is gone from a list of two: the ID is cleared
C27_WitnessMissing ==
  \E p \in DOMAIN pc :
    /\ HasRead(p)
    /\ Len(orgDeploymentSteps[p]) = 2
    /\ IndexOf(orgDeploymentSteps[p], stepId[p]) = 0
    /\ stepId[p] # NoId
    /\ d[p].Id = NoId

(***************************************************************************)
(* C28.  Read of the first_step revision: when the Get succeeded and a     *)
(* step of the fetched list has the resource's ID, first_step is true      *)
(* after the read exactly when that step is the first of the list (index   *)
(* 0), whatever first_step was before.                                     *)
(***************************************************************************)
\* the read of p has found p's step in the fetched list
ReadFound(p) == HasRead(p) /\ IndexOf(orgDeploymentSteps[p], stepId[p]) # 0

C28_FirstStepIffIndexZero ==
  \A p \in DOMAIN pc :
    ReadFound(p) =>
      (firstStep[p] <=> orgDeploymentSteps[p][1].ID = stepId[p])

\* the step is the second of three: first_step is false
C28_Witness ==
  \E p \in DOMAIN pc :
    /\ ReadFound(p)
    /\ Len(orgDeploymentSteps[p]) = 3
    /\ IndexOf(orgDeploymentSteps[p], stepId[p]) = 2
    /\ ~firstStep[p]

\* the step is the first of three: first_step is true
C28_WitnessFirst ==
  \E p \in DOMAIN pc :
    /\ ReadFound(p)
    /\ Len(orgDeploymentSteps[p]) = 3
    /\ IndexOf(orgDeploymentSteps[p], stepId[p]) = 1
    /\ firstStep[p]

====
